---- MODULE Spec2Model ----
(***************************************************************************)
(* Model of the anonymization engine of the radiology report anonymizer    *)
(* (src/model/anonymizer_functions.py, class Anonymizer).                  *)
(*                                                                         *)
(* Texts are TLA+ strings and are handled character by character, as the   *)
(* Python code handles them: the working text, the labels "<KIND_12345>",  *)
(* the replacement map (label -> original text) and the span offsets are   *)
(* the values the code computes.  Every regular expression of the code is  *)
(* modelled by an operator that finds the same matches.                    *)
(***************************************************************************)
EXTENDS Integers, Sequences, FiniteSets, TLC

(***************************************************************************)
(* Characters and strings (Python str / re semantics)                      *)
(***************************************************************************)
UpperChars == {"A", "B", "C", "D", "E", "F", "G", "H", "I", "J", "K", "L", "M",
               "N", "O", "P", "Q", "R", "S", "T", "U", "V", "W", "X", "Y", "Z"}
LowerChars == {"a", "b", "c", "d", "e", "f", "g", "h", "i", "j", "k", "l", "m",
               "n", "o", "p", "q", "r", "s", "t", "u", "v", "w", "x", "y", "z"}
DigitChars == {"0", "1", "2", "3", "4", "5", "6", "7", "8", "9"}
\* the class \w of the re module
WordChars == UpperChars \cup LowerChars \cup DigitChars \cup {"_"}
\* str.split() without argument splits on these
SpaceChars == {" ", "\t", "\n", "\r", "\f"}

\* s[i-1] of Python for a 1-based i; "" outside the string
At(s, i) == IF i >= 1 /\ i <= Len(s) THEN SubSeq(s, i, i) ELSE ""
\* s[i-1:] of Python
From(s, i) == SubSeq(s, i, Len(s))
\* s[:i-1] of Python
Upto(s, i) == SubSeq(s, 1, i - 1)
\* lit occurs in s at position i
StartsAt(s, i, lit) ==
    /\ i >= 1
    /\ i + Len(lit) - 1 <= Len(s)
    /\ SubSeq(s, i, i + Len(lit) - 1) = lit
\* lit occurs in s and ends just before position i
EndsBefore(s, i, lit) == StartsAt(s, i - Len(lit), lit)
\* the assertion \b of re at the gap before position i
WordBoundary(s, i) == (At(s, i - 1) \in WordChars) # (At(s, i) \in WordChars)
\* "sub in s" of Python
Contains(s, sub) == \E i \in 1..(Len(s) + 1) : StartsAt(s, i, sub)
\* s.find(sub) of Python, 1-based; 0 stands for Python's -1
Find(s, sub) ==
    LET hits == {i \in 1..(Len(s) + 1) : StartsAt(s, i, sub)}
    IN  IF hits = {} THEN 0 ELSE CHOOSE i \in hits : \A j \in hits : i <= j
SetMin(S) == CHOOSE i \in S : \A j \in S : i <= j
SetMax(S) == CHOOSE i \in S : \A j \in S : i >= j

AllIn(s, chars) == \A i \in 1..Len(s) : At(s, i) \in chars
\* str.isdigit(), str.isalpha() (false on the empty string)
isdigit(s) == Len(s) > 0 /\ AllIn(s, DigitChars)
isalpha(s) == Len(s) > 0 /\ AllIn(s, UpperChars \cup LowerChars)
\* str.isupper(): at least one cased character and no lowercase one
isupper(s) ==
    /\ \E i \in 1..Len(s) : At(s, i) \in UpperChars
    /\ \A i \in 1..Len(s) : At(s, i) \notin LowerChars

LowerOf == [c \in UpperChars |->
    CASE c = "A" -> "a" [] c = "B" -> "b" [] c = "C" -> "c" [] c = "D" -> "d"
      [] c = "E" -> "e" [] c = "F" -> "f" [] c = "G" -> "g" [] c = "H" -> "h"
      [] c = "I" -> "i" [] c = "J" -> "j" [] c = "K" -> "k" [] c = "L" -> "l"
      [] c = "M" -> "m" [] c = "N" -> "n" [] c = "O" -> "o" [] c = "P" -> "p"
      [] c = "Q" -> "q" [] c = "R" -> "r" [] c = "S" -> "s" [] c = "T" -> "t"
      [] c = "U" -> "u" [] c = "V" -> "v" [] c = "W" -> "w" [] c = "X" -> "x"
      [] c = "Y" -> "y" [] c = "Z" -> "z"]
UpperOf == [c \in LowerChars |-> CHOOSE u \in UpperChars : LowerOf[u] = c]

RECURSIVE MapChars(_, _, _)
MapChars(s, i, f) ==
    IF i > Len(s) THEN ""
    ELSE LET c == At(s, i)
         IN  (IF c \in DOMAIN f THEN f[c] ELSE c) \o MapChars(s, i + 1, f)
\* str.lower(), str.upper()
lower(s) == MapChars(s, 1, LowerOf)
upper(s) == MapChars(s, 1, UpperOf)

DigitVal == [c \in DigitChars |->
    CASE c = "0" -> 0 [] c = "1" -> 1 [] c = "2" -> 2 [] c = "3" -> 3
      [] c = "4" -> 4 [] c = "5" -> 5 [] c = "6" -> 6 [] c = "7" -> 7
      [] c = "8" -> 8 [] c = "9" -> 9]
RECURSIVE IntOf(_)
\* int(s) of Python for a string of decimal digits
IntOf(s) ==
    IF Len(s) = 0 THEN 0
    ELSE 10 * IntOf(Upto(s, Len(s))) + DigitVal[At(s, Len(s))]

RECURSIVE Join(_, _)
\* sep.join(parts) of Python
Join(sep, parts) ==
    IF Len(parts) = 0 THEN ""
    ELSE IF Len(parts) = 1 THEN parts[1]
    ELSE parts[1] \o sep \o Join(sep, Tail(parts))

RECURSIVE SplitFrom(_, _, _, _)
SplitFrom(s, seps, i, start) ==
    IF i > Len(s) THEN <<SubSeq(s, start, Len(s))>>
    ELSE IF At(s, i) \in seps
         THEN <<SubSeq(s, start, i - 1)>> \o SplitFrom(s, seps, i + 1, i + 1)
         ELSE SplitFrom(s, seps, i + 1, start)
\* re.split("[...]", s) and s.split(c): cut at every separator character
SplitOn(s, seps) == SplitFrom(s, seps, 1, 1)

RECURSIVE SelectNonEmpty(_)
SelectNonEmpty(parts) ==
    IF Len(parts) = 0 THEN <<>>
    ELSE (IF parts[1] = "" THEN <<>> ELSE <<parts[1]>>)
         \o SelectNonEmpty(Tail(parts))
\* s.split() of Python: the maximal runs of non-whitespace
SplitWords(s) == SelectNonEmpty(SplitOn(s, SpaceChars))


(***************************************************************************)
(* clean_report and tokenize_reports                                       *)
(***************************************************************************)
RECURSIVE CollapseRuns(_, _, _)
\* re.sub("c+", "c", s): every run of the character c becomes one c
CollapseRuns(s, c, i) ==
    IF i > Len(s) THEN ""
    ELSE IF At(s, i) = c /\ At(s, i - 1) = c THEN CollapseRuns(s, c, i + 1)
    ELSE At(s, i) \o CollapseRuns(s, c, i + 1)

RECURSIVE SkipBack(_, _, _)
\* the position of the nearest character before i that is not c (0 if none)
SkipBack(s, c, i) ==
    IF i < 1 THEN 0 ELSE IF At(s, i) = c THEN SkipBack(s, c, i - 1) ELSE i
RECURSIVE SkipFwd(_, _, _)
\* the position of the nearest character from i on that is not c
SkipFwd(s, c, i) ==
    IF i > Len(s) THEN i ELSE IF At(s, i) = c THEN SkipFwd(s, c, i + 1) ELSE i

RECURSIVE TrimAround(_, _, _)
\* re.sub(" *x *", "x", s): the spaces next to every x are removed
TrimAround(s, x, i) ==
    IF i > Len(s) THEN ""
    ELSE IF At(s, i) = " "
              /\ \/ At(s, SkipFwd(s, " ", i)) = x
                 \/ At(s, SkipBack(s, " ", i)) = x
         THEN TrimAround(s, x, i + 1)
         ELSE At(s, i) \o TrimAround(s, x, i + 1)

\* clean_report with the leading newlines looked for before the spaces around
\* the newlines are removed
clean_report_untrimmed(report_temp) ==
    LET r1 == CollapseRuns(report_temp, " ", 1)
        r3 == IF At(r1, 1) = "\n" THEN From(r1, SkipFwd(r1, "\n", 1)) ELSE r1
        r4 == TrimAround(r3, "\n", 1)
        r5 == TrimAround(r4, "-", 1)
    IN  TrimAround(r5, "/", 1)

clean_report(report_temp) ==
    LET r1 == CollapseRuns(report_temp, " ", 1)
        r2 == TrimAround(r1, "\n", 1)
        \* re.search("\n+") starting at 0: the leading run is removed
        r3 == IF At(r2, 1) = "\n" THEN From(r2, SkipFwd(r2, "\n", 1)) ELSE r2
        r4 == TrimAround(r3, "\n", 1)
        r5 == TrimAround(r4, "-", 1)
    IN  TrimAround(r5, "/", 1)

\* the delimiters of re.split("[,;:()!?.]", sentence)
TokenDelimiters == {",", ";", ":", "(", ")", "!", "?", "."}

\* tokenized_sentences: one token list per line of the report
tokenized_sentences(report) ==
    LET lines == SplitOn(report, {"\n"})
    IN  [i \in 1..Len(lines) |->
            SplitWords(Join(" ", SplitOn(lines[i], TokenDelimiters)))]

\* nltk.ngrams(tokens, n): the windows of n consecutive tokens
ngrams(tokens, n) ==
    [i \in 1..(IF Len(tokens) >= n THEN Len(tokens) - n + 1 ELSE 0) |->
        SubSeq(tokens, i, i + n - 1)]

RECURSIVE Concat(_)
Concat(seqs) == IF Len(seqs) = 0 THEN <<>> ELSE seqs[1] \o Concat(Tail(seqs))

\* a faulty variant of report_n_grams: the n-grams of the tokens of all lines
\* taken together
report_n_grams_joined(sentences, n) == ngrams(Concat(sentences), n)

\* report_n_grams of tokenize_reports: the n-grams of every line, in line order
report_n_grams(sentences, n) ==
    Concat([i \in 1..Len(sentences) |-> ngrams(sentences[i], n)])

(***************************************************************************)
(* Lookup resources (the files of the config directory, loaded by          *)
(* __init__): small lists that hold one or two entries of every kind       *)
(***************************************************************************)
domain_dict == [general |-> TRUE, cardiology |-> FALSE]
whitelist_dict ==
    [general    |-> [full |-> {"visser"}, abbreviated |-> {"CT"}],
     cardiology |-> [full |-> {"hart"},   abbreviated |-> {"ECG"}]]
dates ==
    [days   |-> [full |-> {"maandag", "zondag"}, abbreviated |-> {"ma", "zo"}],
     months |-> [full |-> {"mei", "januari"},    abbreviated |-> {"jan"}]]
raw_family_names == {"Jansen", "Hendrix", "Visser", "Zondag", "Berg, van den"}
raw_first_names == {"Piet ", "A"}
raw_dutch_cities == {"Nijmegen", "Den Haag"}
titles ==
    [before |-> [academic |-> [full |-> {"professor"}, abbreviated |-> {"dr", "prof"}],
                 medical  |-> [full |-> {"arts"},      abbreviated |-> {}]],
     after  |-> [academic |-> [full |-> {"internist"}, abbreviated |-> {"msc"}],
                 medical  |-> [full |-> {"arts"},      abbreviated |-> {}]]]
cues ==
    [negative_lookbehinds |-> [dates |-> {"leeftijd", "segment 4"}, times |-> {"serie"}],
     negative_lookaheads  |-> [dates |-> {"mm"}, times |-> {"mm"}],
     positive_lookbehinds |-> [person_names  |-> {"collega", "de heer"},
                               phone_numbers |-> {"sein", "nummer"},
                               locations     |-> {"te", "uit"}],
     positive_lookaheads  |-> [person_names |-> {"belde"}]]
recist_table_delimiters == [begin_word |-> "recist", end_word |-> "conclusie"]

\* str.strip(): leading and trailing whitespace removed
strip(s) ==
    LET keep == {i \in 1..Len(s) : At(s, i) \notin SpaceChars}
    IN  IF keep = {} THEN "" ELSE SubSeq(s, SetMin(keep), SetMax(keep))

\* the union, over the enabled domains, of the "full" lists
whitelist_full ==
    UNION {whitelist_dict[d].full : d \in {x \in DOMAIN domain_dict : domain_dict[x]}}
whitelist_abbreviated ==
    UNION {whitelist_dict[d].abbreviated : d \in {x \in DOMAIN domain_dict : domain_dict[x]}}
days == dates.days.full
days_abbreviated == dates.days.abbreviated
months == dates.months.full
months_abbreviated == dates.months.abbreviated
\* set.union(dict, dict) adds the KEYS of the two dictionaries
whitelist == whitelist_full \cup DOMAIN dates.days \cup DOMAIN dates.months

\* process_family_names: "Last, First" gives both orders; lowercased; one-letter names dropped
process_family_names(names) ==
    LET alt(n) == LET i == SplitOn(lower(n), {","})
                  IN  IF Len(i) > 1
                      THEN {Join(" ", <<strip(i[2]), strip(i[1])>>),
                            Join(" ", <<strip(i[1]), strip(i[2])>>)}
                      ELSE {i[1]}
    IN  {x \in UNION {alt(n) : n \in names} : Len(x) > 1}
family_names == process_family_names(raw_family_names)
first_names == {x \in {lower(strip(n)) : n \in raw_first_names} : Len(x) > 1}
dutch_cities == {lower(strip(x)) : x \in raw_dutch_cities}

(***************************************************************************)
(* The replacement map: label -> original text, in insertion order         *)
(***************************************************************************)
DictHas(d, k) == \E i \in 1..Len(d) : d[i].k = k
\* self.replace_dict[k]; raises KeyError when the key is missing
DictGet(d, k) == d[CHOOSE i \in 1..Len(d) : d[i].k = k].v
\* self.replace_dict[k] = v
DictSet(d, k, v) ==
    IF DictHas(d, k)
    THEN [i \in 1..Len(d) |-> IF d[i].k = k THEN [k |-> k, v |-> v] ELSE d[i]]
    ELSE Append(d, [k |-> k, v |-> v])

RECURSIVE Stamp(_, _, _)
\* re.sub("\$|([0-9]+)", str(counter), t_id): "$" and every run of digits
\* of the label template become the counter
Stamp(t_id, counter, i) ==
    IF i > Len(t_id) THEN ""
    ELSE IF At(t_id, i) = "$" THEN ToString(counter) \o Stamp(t_id, counter, i + 1)
    ELSE IF At(t_id, i) \in DigitChars
         THEN ToString(counter) \o Stamp(t_id, counter, SetMin({j \in (i + 1)..(Len(t_id) + 1) : At(t_id, j) \notin DigitChars}))
    ELSE At(t_id, i) \o Stamp(t_id, counter, i + 1)

\* a faulty variant of Record: the entry is written, the counter stays
RecordUncounted(e, t_id, match) ==
    [e EXCEPT !.replace_dict = DictSet(e.replace_dict, t_id, match)]

\* "self.replace_dict[t_id] = match; self.counter += 1"
Record(e, t_id, match) ==
    [e EXCEPT !.replace_dict = DictSet(e.replace_dict, t_id, match),
              !.counter = e.counter + 1]

(***************************************************************************)
(* The substitution primitives ("REGEX FUNCTIONS")                         *)
(* An engine value e holds the fields the primitives read and write:       *)
(* e.report (the working text), e.replace_dict and e.counter.              *)
(***************************************************************************)
HyphenLike == {"/", "-", "_"}

\* \b(?<!/)(?<!-)(?<!_) lit \b(?!/)(?!-)(?!_)   matches at position i
MatchText(s, i, lit) ==
    /\ StartsAt(s, i, lit)
    /\ WordBoundary(s, i)
    /\ At(s, i - 1) \notin HyphenLike
    /\ WordBoundary(s, i + Len(lit))
    /\ At(s, i + Len(lit)) \notin HyphenLike

\* re.escape(lit)   matches at position i
MatchNoEscape(s, i, lit) == StartsAt(s, i, lit)

\* \b lit   matches at position i
MatchEndDot(s, i, lit) == StartsAt(s, i, lit) /\ WordBoundary(s, i)

\* exception_regex: one "(?<!ABBR.)" for every whitelisted abbreviation, where
\* the dot stands for any character but a newline; "(?<!.)" for an empty list
AbbreviationBefore(s, i) ==
    /\ At(s, i - 1) # ""
    /\ At(s, i - 1) # "\n"
    /\ \/ whitelist_abbreviated = {}
       \/ \E a \in whitelist_abbreviated : EndsBefore(s, i - 1, a)

\* \b(?<!-) exception_regex lit (?!-), with \b before (?!-) unless lit ends with a dot
MatchNoHyphen(s, i, lit) ==
    /\ StartsAt(s, i, lit)
    /\ WordBoundary(s, i)
    /\ At(s, i - 1) # "-"
    /\ ~AbbreviationBefore(s, i)
    /\ At(lit, Len(lit)) # "." => WordBoundary(s, i + Len(lit))
    /\ At(s, i + Len(lit)) # "-"

\* the exception strings and their upper-case forms (alphabetic strings only)
WithCapitals(strings) == strings \cup {upper(x) : x \in {y \in strings : isalpha(y)}}

\* \b(?<!/)(?<!-)(?<!_) {(?<!X )(?<!X [(])} lit {(?! Y)} (?!/)(?!-)(?!_)\b
MatchWithExceptions(s, i, lit, lookbehinds, lookaheads) ==
    /\ StartsAt(s, i, lit)
    /\ WordBoundary(s, i)
    /\ At(s, i - 1) \notin HyphenLike
    /\ \A x \in WithCapitals(lookbehinds) :
          ~EndsBefore(s, i, x \o " ") /\ ~EndsBefore(s, i, x \o " (")
    /\ \A y \in WithCapitals(lookaheads) : ~StartsAt(s, i + Len(lit), " " \o y)
    /\ At(s, i + Len(lit)) \notin HyphenLike
    /\ WordBoundary(s, i + Len(lit))

\* the match predicate of a primitive; ctx holds the exception lists
Match(kind, s, i, lit, ctx) ==
    CASE kind = "text"       -> MatchText(s, i, lit)
      [] kind = "no_escape"  -> MatchNoEscape(s, i, lit)
      [] kind = "end_dot"    -> MatchEndDot(s, i, lit)
      [] kind = "no_hyphen"  -> MatchNoHyphen(s, i, lit)
      [] kind = "exceptions" -> MatchWithExceptions(s, i, lit, ctx.lookbehinds, ctx.lookaheads)

\* the least position of a set of positions; 0 if there is none
LeastOrZero(hits) == IF hits = {} THEN 0 ELSE SetMin(hits)

\* the start of the leftmost match at or after position i; 0 if there is none
FirstMatch(kind, s, i, lit, ctx) ==
    IF Len(lit) = 0 THEN 0
    ELSE LeastOrZero({j \in i..(Len(s) - Len(lit) + 1) : Match(kind, s, j, lit, ctx)})

RECURSIVE FindAll(_, _, _, _, _)
\* the match at m (0: none) and the matches after it
FindAllAt(m, kind, s, lit, ctx) ==
    IF m = 0 THEN <<>> ELSE <<m>> \o FindAll(kind, s, m + Len(lit), lit, ctx)
\* re.findall / re.finditer: the starts of the non-overlapping matches, left to right
FindAll(kind, s, i, lit, ctx) == FindAllAt(FirstMatch(kind, s, i, lit, ctx), kind, s, lit, ctx)

\* s with the width characters at m replaced by t_id; s itself if m is 0
Splice(s, m, width, t_id) ==
    IF m = 0 THEN s ELSE Upto(s, m) \o t_id \o From(s, m + width)
\* re.sub(pattern, t_id, s, 1): the leftmost match becomes t_id
SubFirst(kind, s, lit, ctx, t_id) ==
    Splice(s, FirstMatch(kind, s, 1, lit, ctx), Len(lit), t_id)

RECURSIVE ReplaceEach(_, _, _, _, _, _)
\* "for match in matches": n times, stamp the label, replace the first
\* remaining match, record the original, count
ReplaceEach(kind, e, n, lit, ctx, t_id) ==
    IF n = 0 THEN e
    ELSE LET id == Stamp(t_id, e.counter, 1)
             e1 == [e EXCEPT !.report = SubFirst(kind, e.report, lit, ctx, id)]
         IN  ReplaceEach(kind, Record(e1, id, lit), n - 1, lit, ctx, id)

NoCtx == [lookbehinds |-> {}, lookaheads |-> {}]

Replace(kind, e, input_text, t_id) ==
    ReplaceEach(kind, e, Len(FindAll(kind, e.report, 1, input_text, NoCtx)), input_text, NoCtx, t_id)

replace_text(e, input_text, t_id) == Replace("text", e, input_text, t_id)
replace_text_no_escape(e, input_text, t_id) == Replace("no_escape", e, input_text, t_id)
replace_text_end_dot(e, input_text, t_id) == Replace("end_dot", e, input_text, t_id)
replace_text_all_end_dot(e, input_text, t_id) == Replace("end_dot", e, input_text, t_id)
replace_text_no_hyphen(e, input_text, t_id) == Replace("no_hyphen", e, input_text, t_id)

\* begin_table_index and end_table_index (0-based, as in the code)
TableIndices(report_temp, recist) ==
    LET low == lower(report_temp)
    IN  IF recist /\ Contains(low, recist_table_delimiters.begin_word)
        THEN [begin |-> Find(low, recist_table_delimiters.begin_word) - 1,
              end   |-> IF Contains(low, recist_table_delimiters.end_word)
                        THEN Find(low, recist_table_delimiters.end_word) - 1
                        ELSE Len(report_temp) - 1]
        ELSE [begin |-> Len(report_temp), end |-> 0 - 1]

RECURSIVE ReplaceOutsideTable(_, _, _, _, _, _, _)
\* the loop of replace_text_with_exceptions: a match found outside the table
\* region makes the first match of the current text a label
ReplaceOutsideTable(e, starts, lit, ctx, t_id, begin_table_index, end_table_index) ==
    IF Len(starts) = 0 THEN e
    ELSE LET start_idx == starts[1] - 1
             end_idx == start_idx + Len(lit)
         IN  IF start_idx > end_table_index \/ end_idx < begin_table_index
             THEN LET id == Stamp(t_id, e.counter, 1)
                      e1 == [e EXCEPT !.report = SubFirst("exceptions", e.report, lit, ctx, id)]
                  IN  ReplaceOutsideTable(Record(e1, id, lit), Tail(starts), lit, ctx, id,
                                          begin_table_index, end_table_index)
             ELSE ReplaceOutsideTable(e, Tail(starts), lit, ctx, t_id,
                                      begin_table_index, end_table_index)

replace_text_with_exceptions(e, input_text, lookbehind_exception_strings, lookahead_exception_strings, t_id, recist) ==
    LET ctx == [lookbehinds |-> lookbehind_exception_strings,
                lookaheads |-> lookahead_exception_strings]
        tab == TableIndices(e.report, recist)
    IN  ReplaceOutsideTable(e, FindAll("exceptions", e.report, 1, input_text, ctx),
                            input_text, ctx, t_id, tab.begin, tab.end)

RECURSIVE replace_matches(_, _, _)
\* the loop of replace_text_persons: the first occurrence of every matched
\* string, wherever it is in the text, becomes the label
replace_matches(e, matches, t_id) ==
    IF Len(matches) = 0 THEN e
    ELSE LET id == Stamp(t_id, e.counter, 1)
             e1 == [e EXCEPT !.report = SubFirst("no_escape", e.report, matches[1], NoCtx, id)]
         IN  replace_matches(Record(e1, id, matches[1]), Tail(matches), id)

(***************************************************************************)
(* Regular expressions that are more than a literal: a pattern is a        *)
(* sequence of atoms, matched with the backtracking order of re.           *)
(***************************************************************************)
Atom(t, s, cls, min, max, pat) ==
    [t |-> t, s |-> s, cls |-> cls, min |-> min, max |-> max, pat |-> pat]
\* a literal string
Lit(s) == Atom("lit", s, "", 0, 0, <<>>)
\* a greedy repetition cls{min,max} of a character class
Rep(cls, min, max) == Atom("rep", "", cls, min, max, <<>>)
\* cls+ : a repetition without upper limit (the limit -1 is never reached)
Plus(cls) == Rep(cls, 1, 0 - 1)
\* "(" and ")" of a capturing group
Open == Atom("open", "", "", 0, 0, <<>>)
Close == Atom("close", "", "", 0, 0, <<>>)
\* (?<=pat) for a pattern of fixed width
Behind(pat, width) == Atom("behind", "", "", width, width, pat)

ClassHas(cls, c) ==
    /\ c # ""
    /\ CASE cls = "digit"    -> c \in DigitChars
         [] cls = "nodigit"  -> c \notin DigitChars
         [] cls = "upper"    -> c \in UpperChars
         [] cls = "lower"    -> c \in LowerChars
         [] cls = "upper_"   -> c \in UpperChars \cup {"_"}
         [] cls = "space"    -> c = " "
         [] cls = "any"      -> c # "\n"

RECURSIVE RunLen(_, _, _, _)
\* how many characters from position i on are in the class, at most max
RunLen(s, i, cls, max) ==
    IF max = 0 \/ ~ClassHas(cls, At(s, i)) THEN 0
    ELSE 1 + RunLen(s, i + 1, cls, max - 1)

NoMatch == [ok |-> FALSE, end |-> 0, g |-> <<0, 0>>]

RECURSIVE MatchFrom(_, _, _, _, _)
RECURSIVE RepFrom(_, _, _, _, _, _)
\* match pat[k..] at position i; g holds the bounds of the capturing group
MatchFrom(s, i, pat, k, g) ==
    IF k > Len(pat) THEN [ok |-> TRUE, end |-> i, g |-> g]
    ELSE LET a == pat[k]
         IN  CASE a.t = "lit" ->
                    IF StartsAt(s, i, a.s)
                    THEN MatchFrom(s, i + Len(a.s), pat, k + 1, g) ELSE NoMatch
               [] a.t = "rep" ->
                    RepFrom(s, i, pat, k, g, RunLen(s, i, a.cls, a.max))
               [] a.t = "open" -> MatchFrom(s, i, pat, k + 1, <<i, g[2]>>)
               [] a.t = "close" -> MatchFrom(s, i, pat, k + 1, <<g[1], i>>)
               [] a.t = "behind" ->
                    IF i - a.min >= 1
                       /\ LET b == MatchFrom(s, i - a.min, a.pat, 1, g)
                          IN  b.ok /\ b.end = i
                    THEN MatchFrom(s, i, pat, k + 1, g) ELSE NoMatch
\* the greedy repetition takes n characters, then fewer
RepFrom(s, i, pat, k, g, n) ==
    IF n < pat[k].min THEN NoMatch
    ELSE LET r == MatchFrom(s, i + n, pat, k + 1, g)
         IN  IF r.ok THEN r ELSE RepFrom(s, i, pat, k, g, n - 1)

MatchAt(s, i, pat) == MatchFrom(s, i, pat, 1, <<0, 0>>)
HasGroup(pat) == \E k \in 1..Len(pat) : pat[k].t = "open"

\* r is a non-empty match at position j
NonEmpty(r, j) == r.ok /\ r.end > j
\* the start of the leftmost non-empty match at or after position i; 0 if none
FirstMatchRe(s, i, pat) ==
    LeastOrZero({j \in i..Len(s) : NonEmpty(MatchAt(s, j, pat), j)})

RECURSIVE FindallRe(_, _, _)
\* what findall gives for the match r at j, and the matches after it
FindallAt(s, j, r, pat) ==
    <<IF HasGroup(pat) THEN SubSeq(s, r.g[1], r.g[2] - 1) ELSE SubSeq(s, j, r.end - 1)>>
    \o FindallRe(s, r.end, pat)
\* the matches from the leftmost one at j on (j = 0: none)
FindallFrom(s, j, pat) == IF j = 0 THEN <<>> ELSE FindallAt(s, j, MatchAt(s, j, pat), pat)
\* re.findall(pat, s): the matched strings (the group's, if pat has a group)
FindallRe(s, i, pat) == FindallFrom(s, FirstMatchRe(s, i, pat), pat)

RECURSIVE SubAllRe(_, _, _, _)
\* re.sub from position i on, where r is the match at i
SubAllAt(s, i, r, pat, repl) ==
    IF r.ok /\ r.end > i THEN repl \o SubAllRe(s, r.end, pat, repl)
    ELSE (IF r.ok THEN repl ELSE "") \o At(s, i) \o SubAllRe(s, i + 1, pat, repl)
\* re.sub(pat, repl, s): every non-overlapping match becomes repl
SubAllRe(s, i, pat, repl) ==
    IF i > Len(s) + 1 THEN "" ELSE SubAllAt(s, i, MatchAt(s, i, pat), pat, repl)

RECURSIVE ReplaceAll(_, _, _, _)
\* s.replace(old, new) of Python for a non-empty old
ReplaceAll(s, i, old, new) ==
    IF i > Len(s) THEN ""
    ELSE IF StartsAt(s, i, old) THEN new \o ReplaceAll(s, i + Len(old), old, new)
    ELSE At(s, i) \o ReplaceAll(s, i + 1, old, new)

RECURSIVE RawPattern(_, _)
\* a text used as a pattern without re.escape: a dot matches any character
\* but a newline and parentheses delimit groups
RawPattern(text, i) ==
    IF i > Len(text) THEN <<>>
    ELSE LET c == At(text, i)
         IN  <<CASE c = "." -> Rep("any", 1, 1)
                 [] c = "(" -> Open
                 [] c = ")" -> Close
                 [] OTHER -> Lit(c)>> \o RawPattern(text, i + 1)

RECURSIVE Depths(_, _, _)
\* the nesting depth after every character of the text
Depths(text, i, d) ==
    IF i > Len(text) THEN <<d>>
    ELSE LET c == At(text, i)
             d1 == IF c = "(" THEN d + 1 ELSE IF c = ")" THEN d - 1 ELSE d
         IN  <<d>> \o Depths(text, i + 1, d1)
\* re.compile(text) raises re.error on unbalanced parentheses
RawCompiles(text) ==
    LET ds == Depths(text, 1, 0)
    IN  (\A k \in 1..Len(ds) : ds[k] >= 0) /\ ds[Len(ds)] = 0

(***************************************************************************)
(* The detectors ("FUNCTIONS FOR ANONYMISING TEXTS").  What a detector     *)
(* does to the text depends on its n-gram only: a detector is modelled by  *)
(* the list of calls of the substitution primitives it makes for the       *)
(* n-gram, and the loop body that calls it runs them in order on the       *)
(* engine (Run).                                                           *)
(***************************************************************************)
Call(kind, input_text, t_id) ==
    <<[kind |-> kind, input_text |-> input_text, t_id |-> t_id,
       lookbehinds |-> {}, lookaheads |-> {}]>>
CallWithExceptions(input_text, lookbehinds, lookaheads, t_id) ==
    <<[kind |-> "exceptions", input_text |-> input_text, t_id |-> t_id,
       lookbehinds |-> lookbehinds, lookaheads |-> lookaheads]>>
When(cond, calls) == IF cond THEN calls ELSE <<>>

\* one call of a primitive
RunCall(e, c) ==
    CASE c.kind = "text" -> replace_text(e, c.input_text, c.t_id)
      [] c.kind = "no_escape" -> replace_text_no_escape(e, c.input_text, c.t_id)
      [] c.kind = "end_dot" -> replace_text_end_dot(e, c.input_text, c.t_id)
      [] c.kind = "all_end_dot" -> replace_text_all_end_dot(e, c.input_text, c.t_id)
      [] c.kind = "no_hyphen" -> replace_text_no_hyphen(e, c.input_text, c.t_id)
      [] c.kind = "exceptions" ->
           replace_text_with_exceptions(e, c.input_text, c.lookbehinds,
                                        c.lookaheads, c.t_id, TRUE)

RECURSIVE RunRange(_, _, _, _)
\* the calls number lo to hi, unless an earlier call raised
RunRest(e1, calls, lo, hi) == IF e1.raised THEN e1 ELSE RunRange(e1, calls, lo, hi)
\* the calls number lo to hi, in order (the first half, then the second half)
RunRange(e, calls, lo, hi) ==
    IF lo > hi THEN e
    ELSE IF lo = hi THEN RunCall(e, calls[lo])
    ELSE RunRest(RunRange(e, calls, lo, (lo + hi) \div 2), calls, (lo + hi) \div 2 + 1, hi)
\* the calls of a list, in order
Run(e, calls) == RunRange(e, calls, 1, Len(calls))

\* s[:n] and s[-n:] of Python
Prefix(s, n) == SubSeq(s, 1, IF n < Len(s) THEN n ELSE Len(s))
Suffix(s, n) == SubSeq(s, IF n < Len(s) THEN Len(s) - n + 1 ELSE 1, Len(s))
\* a faulty variant of InRange: the upper limit itself is out of the range
InRangeBelow(lo, s, hi) == lo <= IntOf(s) /\ IntOf(s) < hi
InRange(lo, s, hi) == lo <= IntOf(s) /\ IntOf(s) <= hi
StartsWithCentury(s) == Prefix(s, 2) = "19" \/ Prefix(s, 2) = "20"
IsDayName(t) == lower(t) \in days \/ lower(t) \in days_abbreviated
IsMonthName(t) == lower(t) \in months \/ lower(t) \in months_abbreviated
\* "(...)" around a string
Parenthesized(x) == "(" \o x \o ")"

RECURSIVE ReplaceWord(_, _, _, _)
\* re.sub(r"\bw\b", by, s)
ReplaceWord(s, i, w, by) ==
    IF i > Len(s) THEN ""
    ELSE IF StartsAt(s, i, w) /\ WordBoundary(s, i) /\ WordBoundary(s, i + Len(w))
         THEN by \o ReplaceWord(s, i + Len(w), w, by)
         ELSE At(s, i) \o ReplaceWord(s, i + 1, w, by)

capitals_exist(tokens) == \E i \in 1..Len(tokens) : At(tokens[i], 1) \in UpperChars

\* all_tokens: the n-gram and its readings of "vd", "v/d" and "v", as strings
all_tokens(full_string) ==
    {Join(" ", SplitWords(x)) : x \in
        {full_string,
         ReplaceWord(full_string, 1, "vd", "van der"),
         ReplaceWord(full_string, 1, "v/d", "van der"),
         ReplaceWord(full_string, 1, "vd", "van de"),
         ReplaceWord(full_string, 1, "v/d", "van de"),
         ReplaceWord(full_string, 1, "vd", "van den"),
         ReplaceWord(full_string, 1, "v/d", "van den"),
         ReplaceWord(full_string, 1, "v", "van")}}

\* the tokens with a comma after token i
WithComma(tokens, i) ==
    Join(" ", [j \in 1..Len(tokens) |-> IF j = i THEN tokens[j] \o "," ELSE tokens[j]])
RECURSIVE CommaNames(_, _)
CommaNames(tokens, i) ==
    IF i < 1 THEN <<>> ELSE <<WithComma(tokens, i)>> \o CommaNames(tokens, i - 1)
\* new_family_names: the n-gram, then the comma nearest the end first
new_family_names(tokens) == <<Join(" ", tokens)>> \o CommaNames(tokens, Len(tokens) - 1)

RECURSIVE FamilyNameCalls(_)
FamilyNameCalls(names) ==
    IF Len(names) = 0 THEN <<>>
    ELSE LET new_family_name == names[1]
         IN  (IF lower(new_family_name) \notin whitelist
              THEN Call("no_escape", Parenthesized(new_family_name), "<ACHTERNAAM_$>")
                   \o When(At(new_family_name, 1) = "v",
                           Call("no_escape", "v." \o From(new_family_name, 2), "<ACHTERNAAM_$>"))
                   \o Call("text", new_family_name, "<ACHTERNAAM_$>")
              ELSE Call("no_escape", Parenthesized(new_family_name), "<W_ACHTERNAAM_$>")
                   \o Call("text", new_family_name, "<W_ACHTERNAAM_$>"))
             \o FamilyNameCalls(Tail(names))

replace_family_names(tokens) ==
    LET full_string == Join(" ", tokens)
        tokens_double == SplitOn(full_string, {"-", "/"})
        id == IF lower(tokens_double[1]) \notin whitelist
                 /\ lower(tokens_double[2]) \notin whitelist
              THEN "<ACHTERNAAM_$>" ELSE "<W_ACHTERNAAM_$>"
        double == When(/\ Len(tokens_double) = 2
                       /\ lower(tokens_double[1]) \in family_names
                       /\ lower(tokens_double[2]) \in family_names
                       /\ capitals_exist(tokens),
                       Call("no_escape", Parenthesized(full_string), id)
                       \o Call("text", full_string, id))
        ngram_in_familylist == \E x \in all_tokens(full_string) :
                                  x # "" /\ lower(x) \in family_names
    IN  double \o When(ngram_in_familylist /\ capitals_exist(tokens),
                              FamilyNameCalls(new_family_names(tokens)))

replace_initials(tokens) ==
    LET id_1 == "<INITIALEN_$>"
        dotted == Join(".", tokens)
    IN  When((\A i \in 1..Len(tokens) : isalpha(tokens[i]))
                    /\ (\A i \in 1..Len(tokens) : isupper(tokens[i])),
                    When(Len(tokens[1]) < 6 /\ Len(tokens) = 1
                         /\ tokens[1] \notin whitelist_abbreviated,
                         Call("no_hyphen", tokens[1] \o ".", id_1)
                         \o Call("no_hyphen", tokens[1], id_1))
                    \o When(\A i \in 1..Len(tokens) : Len(tokens[i]) <= 1,
                            Call("all_end_dot", Join(". ", tokens) \o ".", id_1)
                            \o Call("all_end_dot", dotted \o ".", id_1)
                            \o Call("text", dotted, id_1)
                            \o Call("text", Join(" ", tokens), id_1)))

\* full-date patterns of four tokens: day name, day, month name, year
Dates4(t, id_1) ==
    When(/\ StartsWithCentury(t[4]) /\ Len(t[2]) <= 2 /\ Len(t[4]) = 4
         /\ isdigit(t[2]) /\ isdigit(t[4]) /\ IsDayName(t[1]) /\ IsMonthName(t[3])
         /\ InRange(1, t[2], 31),
         Call("text", Join(" ", <<t[1] \o ".", t[2], t[3] \o ".", t[4]>>), id_1)
         \o Call("text", Join(" ", <<t[1], t[2], t[3] \o ".", t[4]>>), id_1)
         \o Call("text", Join(" ", <<t[1] \o ".", t[2], t[3], t[4]>>), id_1)
         \o Call("text", Join(" ", t), id_1))

Dates3(t, id_1) ==
    \* day, month name, year of 4 digits
    When(/\ StartsWithCentury(t[3]) /\ Len(t[1]) <= 2 /\ Len(t[3]) = 4
         /\ isdigit(t[1]) /\ isdigit(t[3]) /\ IsMonthName(t[2])
         /\ InRange(1, t[1], 31),
         Call("text", Join(" ", <<t[1], t[2] \o ".", t[3]>>), id_1)
         \o Call("text", Join(" ", t), id_1))
    \* day, month name, year of 2 digits
    \o When(/\ Len(t[1]) <= 2 /\ Len(t[3]) = 2 /\ isdigit(t[1]) /\ isdigit(t[3])
            /\ IsMonthName(t[2]) /\ InRange(1, t[1], 31),
            Call("text", Join(" ", <<t[1], t[2] \o ".", t[3]>>), id_1)
            \o Call("text", Join(" ", t), id_1))
    \* day name, day, month name
    \o When(/\ Len(t[2]) <= 2 /\ isdigit(t[2]) /\ IsDayName(t[1]) /\ IsMonthName(t[3])
            /\ InRange(1, t[2], 31),
            When(lower(t[3]) \in months_abbreviated,
                 Call("end_dot", Join(" ", <<t[1] \o ".", t[2], t[3] \o ".">>), id_1)
                 \o Call("end_dot", Join(" ", <<t[1], t[2], t[3] \o ".">>), id_1))
            \o Call("text", Join(" ", <<t[1] \o ".", t[2], t[3]>>), id_1)
            \o Call("text", Join(" ", t), id_1))
    \* day, month, year of 2 digits
    \o When(/\ Len(t[1]) <= 2 /\ Len(t[2]) <= 2 /\ Len(t[3]) = 2
            /\ isdigit(t[1]) /\ isdigit(t[2]) /\ isdigit(t[3])
            /\ InRange(1, t[1], 31) /\ InRange(1, t[2], 12),
            Call("end_dot", Join(". ", t) \o ".", id_1)
            \o Call("text", Join(". ", t), id_1)
            \o Call("text", Join(".", t), id_1)
            \o CallWithExceptions(Join(" ", t), cues.negative_lookbehinds.dates,
                                  cues.negative_lookaheads.dates, id_1))
    \* day, month, year of 4 digits
    \o When(/\ Len(t[1]) <= 2 /\ Len(t[2]) <= 2 /\ Len(t[3]) = 4
            /\ isdigit(t[1]) /\ isdigit(t[2]) /\ isdigit(t[3]) /\ StartsWithCentury(t[3])
            /\ InRange(1, t[1], 31) /\ InRange(1, t[2], 12),
            Call("end_dot", Join(". ", t) \o ".", id_1)
            \o Call("text", Join(". ", t), id_1)
            \o Call("text", Join(".", t), id_1)
            \o Call("text", Join(" ", t), id_1))

\* date_text: the token cut at hyphens if it has one, at slashes otherwise
DateText(token) ==
    IF Contains(token, "-") THEN SplitOn(token, {"-"}) ELSE SplitOn(token, {"/"})
NoDigit(strings) == {x \in strings : \A i \in 1..Len(x) : At(x, i) \notin DigitChars}

Dates2(t, id_1) ==
    LET date_text == DateText(t[1])
    IN  \* month name, year
        When(/\ Len(t[2]) = 4 /\ isdigit(t[2]) /\ IsMonthName(t[1]) /\ StartsWithCentury(t[2]),
             Call("text", Join(" ", <<t[1] \o ".", t[2]>>), id_1)
             \o Call("text", Join(" ", t), id_1))
        \* day, month name
        \o When(/\ Len(t[1]) <= 2 /\ isdigit(t[1]) /\ IsMonthName(t[2]) /\ InRange(1, t[1], 31),
                When(lower(t[2]) \in months_abbreviated,
                     Call("end_dot", Join(" ", <<t[1], t[2] \o ".">>), id_1))
                \o Call("text", Join(" ", t), id_1))
        \* day-month or day/month, then the year after a space
        \o When(/\ Len(date_text) = 2
                /\ Len(date_text[1]) <= 2 /\ Len(date_text[2]) <= 2 /\ Len(t[2]) = 4
                /\ isdigit(date_text[1]) /\ isdigit(date_text[2]) /\ isdigit(t[2])
                /\ StartsWithCentury(t[2])
                /\ InRange(1, date_text[1], 31) /\ InRange(1, date_text[2], 12),
                CallWithExceptions(Join(" ", t), NoDigit(cues.negative_lookbehinds.dates),
                                   {}, id_1))

Dates1(t, id_1) ==
    LET d == DateText(t[1])
        three == Len(d) = 3
        two == Len(d) = 2
    IN  \* day, month name, year of 2 digits
        When(/\ three /\ isdigit(d[1]) /\ isdigit(d[3]) /\ Len(d[1]) <= 2 /\ Len(d[3]) = 2
             /\ IsMonthName(d[2]) /\ InRange(1, d[1], 31),
             Call("text", t[1], id_1))
        \* year, month, day
        \o When(/\ three /\ Len(d[1]) = 4 /\ Len(d[2]) <= 2 /\ Len(d[3]) <= 2
                /\ isdigit(d[1]) /\ isdigit(d[2]) /\ isdigit(d[3]) /\ StartsWithCentury(d[1])
                /\ InRange(1, d[3], 31) /\ InRange(1, d[2], 12),
                Call("text", t[1], id_1))
        \* day, month name, year of 4 digits
        \o When(/\ three /\ isdigit(d[1]) /\ isdigit(d[3]) /\ Len(d[1]) <= 2 /\ Len(d[3]) = 4
                /\ StartsWithCentury(d[3]) /\ IsMonthName(d[2]) /\ InRange(1, d[1], 31),
                Call("text", t[1], id_1))
        \* day, month, year of 4 digits
        \o When(/\ three /\ Len(d[1]) <= 2 /\ Len(d[2]) <= 2 /\ Len(d[3]) = 4
                /\ isdigit(d[1]) /\ isdigit(d[2]) /\ isdigit(d[3]) /\ StartsWithCentury(d[3])
                /\ InRange(1, d[1], 31) /\ InRange(1, d[2], 12),
                Call("text", t[1], id_1))
        \* day, month, year of 2 digits
        \o When(/\ three /\ Len(d[1]) <= 2 /\ Len(d[2]) <= 2 /\ Len(d[3]) = 2
                /\ isdigit(d[1]) /\ isdigit(d[2]) /\ isdigit(d[3])
                /\ InRange(1, d[1], 31) /\ InRange(1, d[2], 12),
                Call("text", t[1], id_1))
        \* day, year of 4 digits
        \o When(/\ two /\ Len(d[1]) <= 2 /\ Len(d[2]) = 4 /\ isdigit(d[1]) /\ isdigit(d[2])
                /\ StartsWithCentury(d[2]) /\ InRange(1, d[1], 31),
                CallWithExceptions(t[1], cues.negative_lookbehinds.dates,
                                   cues.negative_lookaheads.dates, id_1))
        \* day, month
        \o When(/\ two /\ Len(d[1]) <= 2 /\ Len(d[2]) <= 2 /\ isdigit(d[1]) /\ isdigit(d[2])
                /\ InRange(1, d[1], 31) /\ InRange(1, d[2], 12),
                CallWithExceptions(t[1], cues.negative_lookbehinds.dates,
                                   cues.negative_lookaheads.dates, id_1))
        \* year
        \o When(Len(t[1]) = 4 /\ isdigit(t[1]) /\ StartsWithCentury(t[1]),
                Call("text", t[1], id_1))
        \* month name
        \o When(IsMonthName(t[1]),
                When(lower(t[1]) \in months_abbreviated, Call("end_dot", t[1] \o ".", id_1))
                \o Call("text", t[1], id_1))

replace_dates(tokens) ==
    CASE Len(tokens) = 4 -> Dates4(tokens, "<DATUM_$>")
             [] Len(tokens) = 3 -> Dates3(tokens, "<DATUM_$>")
             [] Len(tokens) = 2 -> Dates2(tokens, "<DATUM_$>")
             [] Len(tokens) = 1 -> Dates1(tokens, "<DATUM_$>")
             [] OTHER -> <<>>

titles_before ==
    UNION {titles.before[key].full \cup titles.before[key].abbreviated :
           key \in DOMAIN titles.before}
titles_after ==
    UNION {titles.after[key].full \cup titles.after[key].abbreviated :
           key \in DOMAIN titles.after}
titles_full ==
    UNION ({titles.before[key].full : key \in DOMAIN titles.before}
           \cup {titles.after[key].full : key \in DOMAIN titles.after})

\* the dotted and the plain spelling of a title of two or three tokens
TitleCallsN(tokens, full_string, t_id) ==
    When(lower(full_string) \notin titles_full,
         Call("end_dot", Join(". ", tokens) \o ".", t_id)
         \o Call("end_dot", Join(".", tokens) \o ".", t_id))
    \o Call("text", Join(" ", tokens), t_id)

\* the spellings of a title of one token; the bracketed one is labelled
\* as a title after the name
TitleCalls1(token, t_id, brackets) ==
    When(lower(token) \notin titles_full, Call("end_dot", token \o ".", t_id))
    \o When(brackets, Call("no_escape", Parenthesized(token), "<TITELS_ACHTER_$>"))
    \o Call("text", token, t_id)

replace_titles(tokens) ==
    LET full_string == Join(" ", tokens)
        id_1 == "<TITELS_VOOR_ACHTER_$>"
        id_2 == "<TITELS_VOOR_$>"
        id_3 == "<TITELS_ACHTER_$>"
        before == lower(full_string) \in titles_before
        after == lower(full_string) \in titles_after
    IN  IF Len(tokens) = 3 \/ Len(tokens) = 2
               THEN When(before /\ after, TitleCallsN(tokens, full_string, id_1))
                    \o When(before, TitleCallsN(tokens, full_string, id_2))
                    \o When(after, TitleCallsN(tokens, full_string, id_3))
               ELSE IF Len(tokens) = 1
               THEN When(before /\ after, TitleCalls1(tokens[1], id_1, TRUE))
                    \o When(before, TitleCalls1(tokens[1], id_2, FALSE))
                    \o When(after, TitleCalls1(tokens[1], id_3, TRUE))
               ELSE <<>>

replace_phonenumbers(tokens) ==
    LET id_1 == "<TELEFOONNUMMER_$>"
        cue == lower(tokens[1]) \in cues.positive_lookbehinds.phone_numbers
    IN  CASE Len(tokens) = 3 ->
                      When(Len(tokens[3]) = 4 /\ isdigit(tokens[3]) /\ tokens[2] = "*" /\ cue,
                           Call("text", Join(" ", tokens), id_1))
                 [] Len(tokens) = 2 ->
                      When(/\ Len(tokens[2]) = 5 /\ isdigit(Suffix(tokens[2], 4))
                           /\ At(tokens[2], 1) = "*" /\ cue,
                           Call("text", Join(" ", tokens), id_1))
                      \o When(Len(tokens[2]) = 4 /\ isdigit(tokens[2]) /\ cue,
                              Call("text", Join(" ", tokens), id_1))
                 [] Len(tokens) = 1 ->
                      When(Len(tokens[1]) = 5 /\ isdigit(tokens[1]),
                           Call("text", tokens[1], id_1))
                 [] OTHER -> <<>>

\* a faulty variant of Times3: the form with dots is left to the later detectors
Times3ColonOrSpace(t, id_1) ==
    When(/\ Len(t[1]) <= 2 /\ Len(t[2]) = 2 /\ Len(t[3]) = 2
         /\ isdigit(t[1]) /\ isdigit(t[2]) /\ isdigit(t[3])
         /\ InRange(0, t[1], 23) /\ InRange(0, t[2], 59) /\ InRange(0, t[3], 59),
         Call("text", Join(":", t), id_1)
         \o CallWithExceptions(Join(" ", t), cues.negative_lookbehinds.times,
                               cues.negative_lookaheads.times, id_1))

Times3(t, id_1) ==
    When(/\ Len(t[1]) <= 2 /\ Len(t[2]) = 2 /\ Len(t[3]) = 2
         /\ isdigit(t[1]) /\ isdigit(t[2]) /\ isdigit(t[3])
         /\ InRange(0, t[1], 23) /\ InRange(0, t[2], 59) /\ InRange(0, t[3], 59),
         Call("text", Join(":", t), id_1)
         \o Call("text", Join(".", t), id_1)
         \o CallWithExceptions(Join(" ", t), cues.negative_lookbehinds.times,
                               cues.negative_lookaheads.times, id_1))

Times2(t, id_1) ==
    \* hours and minutes
    When(/\ Len(t[1]) <= 2 /\ Len(t[2]) = 2 /\ isdigit(t[1]) /\ isdigit(t[2])
         /\ InRange(0, t[1], 23) /\ InRange(0, t[2], 59),
         Call("text", Join(":", t) \o " uur", id_1)
         \o Call("text", Join(":", t), id_1)
         \o Call("text", Join(".", t) \o " uur", id_1)
         \o CallWithExceptions(Join(".", t), cues.negative_lookbehinds.times,
                               cues.negative_lookaheads.times, id_1)
         \o Call("text", Join(" ", t) \o " uur", id_1))
    \* hours and minutes with a trailing "u"
    \o When(/\ Len(t[1]) <= 2 /\ Len(t[2]) = 3 /\ isdigit(t[1])
            /\ isdigit(Prefix(t[2], 2)) /\ At(t[2], 3) = "u"
            /\ InRange(0, t[1], 23) /\ InRange(0, Prefix(t[2], 2), 59),
            Call("text", Join(":", t), id_1)
            \o Call("text", Join(".", t), id_1))
    \* "1200 uur", and otherwise "12 uur"
    \o (IF Len(t[1]) = 4 /\ isdigit(t[1]) /\ lower(t[2]) = "uur"
        THEN When(InRange(1, Prefix(t[1], 2), 23) /\ InRange(0, Suffix(t[1], 2), 59),
                  Call("text", Join(" ", t), id_1))
        ELSE When(/\ Len(t[1]) <= 2 /\ isdigit(t[1]) /\ lower(t[2]) = "uur"
                  /\ InRange(1, t[1], 23),
                  Call("text", Join(" ", t), id_1)))

RECURSIVE SplitKeep(_, _, _, _)
\* re.split("(c)", s): the pieces and the separators between them
SplitKeep(s, c, i, start) ==
    IF i > Len(s) THEN <<SubSeq(s, start, Len(s))>>
    ELSE IF At(s, i) = c
         THEN <<SubSeq(s, start, i - 1), c>> \o SplitKeep(s, c, i + 1, i + 1)
         ELSE SplitKeep(s, c, i + 1, start)

Times1(t, id_1) ==
    LET new_tokens == SplitKeep(t[1], "u", 1, 1)
    IN  When(/\ Len(new_tokens) = 3
             /\ isdigit(new_tokens[1]) /\ new_tokens[2] = "u" /\ isdigit(new_tokens[3])
             /\ Len(new_tokens[3]) = 2 /\ Len(new_tokens[1]) <= 2
             /\ InRange(0, new_tokens[1], 23) /\ InRange(0, new_tokens[3], 59),
             Call("text", t[1], id_1))

replace_time(tokens) ==
    CASE Len(tokens) = 3 -> Times3(tokens, "<TIJD_$>")
             [] Len(tokens) = 2 -> Times2(tokens, "<TIJD_$>")
             [] Len(tokens) = 1 -> Times1(tokens, "<TIJD_$>")
             [] OTHER -> <<>>

replace_cues(tokens) ==
    LET full_string == Join(" ", tokens)
        cues_before == cues.positive_lookbehinds.person_names
        cues_after == cues.positive_lookaheads.person_names
    IN  When(lower(full_string) \in cues_before,
                    Call("text", full_string, "<PERSOON_HINT_VOOR_$>"))
               \o When(lower(full_string) \in cues_after,
                       Call("text", full_string, "<PERSOON_HINT_ACHTER_$>"))

\* a faulty variant of replace_patientnumber: seven digits or more
replace_patientnumber_longer(tokens) ==
    When(Len(tokens[1]) >= 7 /\ isdigit(tokens[1]),
                Call("text", tokens[1], "<PATIENTNUMMER_$>"))

replace_patientnumber(tokens) ==
    When(Len(tokens[1]) = 7 /\ isdigit(tokens[1]),
                Call("text", tokens[1], "<PATIENTNUMMER_$>"))

replace_znumber(tokens) ==
    LET token == tokens[1]
    IN  When(Len(token) = 7 /\ lower(At(token, 1)) = "z" /\ isdigit(From(token, 2)),
                    Call("text", token, "<ZNUMMER_$>"))

replace_firstnames(tokens) ==
    LET token == tokens[1]
    IN  When(/\ lower(token) \in first_names
                    /\ At(token, 1) \in UpperChars
                    /\ lower(token) \notin whitelist
                    /\ lower(token) \notin days
                    /\ lower(token) \notin months
                    /\ lower(token) \notin months_abbreviated,
                    Call("no_escape", Parenthesized(token), "<VOORNAAM_$>")
                    \o Call("text", token, "<VOORNAAM_$>"))

replace_reportid(tokens) ==
    LET full_string == Join(" ", tokens)
        parts == SplitOn(full_string, SpaceChars \cup {"-"})
    IN  When(/\ Len(parts) = 3
                    /\ parts[1] = "T"
                    /\ isdigit(parts[2]) /\ Len(parts[2]) = 2
                    /\ isdigit(parts[3]) /\ Len(parts[3]) = 5,
                    Call("text", full_string, "<RAPPORT_ID_$>"))

\* a faulty variant of replace_cities: the token before the name is not looked at
replace_cities_uncued(tokens) ==
    LET city_name == Join(" ", Tail(tokens))
    IN  When(/\ lower(city_name) \in dutch_cities
                    /\ \E i \in 2..Len(tokens) : At(tokens[i], 1) \in UpperChars,
                    Call("text", city_name, "<PLAATS_$>"))

replace_cities(tokens) ==
    LET city_name == Join(" ", Tail(tokens))
    IN  When(/\ lower(city_name) \in dutch_cities
                    /\ \E i \in 2..Len(tokens) : At(tokens[i], 1) \in UpperChars
                    /\ tokens[1] \in cues.positive_lookbehinds.locations,
                    Call("text", city_name, "<PLAATS_$>"))

(***************************************************************************)
(* The Radboudumc specific preprocessors.  An exception leaves the engine  *)
(* as it is at that point; e.raised records it.                            *)
(***************************************************************************)
Raise(e) == [e EXCEPT !.raised = TRUE]

\* report.split("\n"), filled up to four lines
PaddedLines(report) ==
    LET report_lines == SplitOn(report, {"\n"})
    IN  report_lines \o [i \in 1..(4 - Len(report_lines)) |-> ""]

RECURSIVE StatusLoop(_, _, _)
StatusLoop(e, report_lines, pointer) ==
    IF e.raised \/ pointer + 4 > Len(report_lines) THEN e
    ELSE LET original_line_4_gram == SubSeq(report_lines, pointer + 1, pointer + 4)
             line_4_gram == [i \in 1..4 |-> strip(original_line_4_gram[i])]
             block == Join("\n", original_line_4_gram)
             t_id == "<GEAUTORISEERD_" \o ToString(e.counter) \o ">"
         IN  IF /\ line_4_gram[1] = ""
                /\ line_4_gram[2] = ""
                /\ Contains(lower(line_4_gram[4]), "verslagstatus")
                /\ Len(line_4_gram[3]) > 0
                /\ At(line_4_gram[3], 1) \in UpperChars
             THEN IF RawCompiles(block)
                  THEN StatusLoop(
                         Record([e EXCEPT !.report =
                                    SubAllRe(e.report, 1, RawPattern(block, 1), t_id)],
                                t_id, block),
                         report_lines, pointer + 1)
                  ELSE Raise(e)
             ELSE StatusLoop(e, report_lines, pointer + 1)

remove_report_status(e) == StatusLoop(e, PaddedLines(e.report), 0)

\* (?<=door )[^0-9]+
AddendumName == <<Behind(<<Lit("door ")>>, 5), Plus("nodigit")>>

RECURSIVE AddendumLoop(_, _, _)
\* the lines already handled are in new_report
AddendumLoop(e, report_lines, new_report) ==
    IF e.raised THEN e
    ELSE IF Len(report_lines) = 0 THEN [e EXCEPT !.report = Join("\n", new_report)]
    ELSE LET line == report_lines[1]
             matches == FindallRe(line, 1, AddendumName)
             t_id == "<PERSOON_" \o ToString(e.counter) \o ">"
         IN  IF Contains(line, "ADDENDUM: >>") /\ Len(matches) > 0
             THEN IF RawCompiles(matches[1])
                  THEN AddendumLoop(Record(e, t_id, matches[1]), Tail(report_lines),
                           Append(new_report,
                                  SubAllRe(line, 1, RawPattern(matches[1], 1), t_id)))
                  ELSE Raise(e)
             ELSE AddendumLoop(e, Tail(report_lines), Append(new_report, line))

remove_name_addendum(e) == AddendumLoop(e, SplitOn(e.report, {"\n"}), <<>>)

(***************************************************************************)
(* replace_intermediate_labels: the patterns that make a person name of    *)
(* adjacent intermediate labels, in the order of the code                  *)
(***************************************************************************)
\* <KIND_[0-9]+>
LabelOf(kind) == <<Lit("<" \o kind \o "_"), Plus("digit"), Lit(">")>>
\* <KIND_[0-9]{5}>
Label5Of(kind) == <<Lit("<" \o kind \o "_"), Rep("digit", 5, 5), Lit(">")>>
\* an item of a pattern list: a label, a label and a comma, or a label and
\* an unescaped dot
ItemOf(item) ==
    LET last == At(item, Len(item))
    IN  IF last = "," THEN LabelOf(Upto(item, Len(item))) \o <<Lit(",")>>
        ELSE IF last = "." THEN LabelOf(Upto(item, Len(item))) \o <<Rep("any", 1, 1)>>
        ELSE LabelOf(item)
RECURSIVE JoinItems(_)
JoinItems(items) ==
    IF Len(items) = 1 THEN ItemOf(items[1])
    ELSE ItemOf(items[1]) \o <<Rep("space", 0, 1)>> \o JoinItems(Tail(items))
\* " ?".join(items), replaced by a person label
Labels(items) == [pattern |-> JoinItems(items), t_id |-> "<PERSOON_$>"]
\* (?<=<PERSOON_HINT_VOOR_[0-9]{5}>[:] <TITLE_[0-9]{5}> )[A-Z]{1}[a-z]+
Misspelled(colon, title) ==
    LET behind == Label5Of("PERSOON_HINT_VOOR") \o <<Lit(colon \o " ")>>
                  \o Label5Of(title) \o <<Lit(" ")>>
        width == Len("<PERSOON_HINT_VOOR_>" \o colon \o " <" \o title \o "_> ") + 10
    IN  [pattern |-> <<Behind(behind, width), Rep("upper", 1, 1), Plus("lower")>>,
         t_id |-> "<TEMP_PERSOON_$>"]
\* ".{,2}".join([cue, "(" title, temp ")"])
HintTitleTemp(cue, title, temp) ==
    [pattern |-> LabelOf(cue) \o <<Rep("any", 0, 2), Open>> \o LabelOf(title)
                 \o <<Rep("any", 0, 2)>> \o LabelOf(temp) \o <<Close>>,
     t_id |-> "<PERSOON_$>"]
\* " ?".join([cue, "(" name ")"])
CueBefore(cue, name) ==
    [pattern |-> LabelOf(cue) \o <<Rep("space", 0, 1), Open>> \o LabelOf(name) \o <<Close>>,
     t_id |-> "<PERSOON_$>"]
\* ".?".join(["(" name ")", cue]), with one more dot before the cue if dot
CueAfter(name, cue, dot) ==
    [pattern |-> <<Open>> \o LabelOf(name) \o <<Close, Rep("any", 0, 1)>>
                 \o (IF dot THEN <<Rep("any", 1, 1)>> ELSE <<>>) \o LabelOf(cue),
     t_id |-> "<PERSOON_$>"]

\* a faulty variant of MergePatterns: a surname label alone makes a person
MergePatternsAlone(t_id) == <<Labels(<<t_id>>)>>

\* the patterns of replace_intermediate_labels for the surname kind t_id
MergePatterns(t_id) == <<
        Labels(<<"TITELS_VOOR", "TITELS_VOOR", "TITELS_VOOR", "INITIALEN", t_id,
               "TITELS_ACHTER">>),
        Labels(<<"TITELS_VOOR", "TITELS_VOOR", "TITELS_VOOR", "INITIALEN", t_id \o ",",
               "TITELS_ACHTER">>),
        Labels(<<"TITELS_VOOR", "TITELS_VOOR", "TITELS_VOOR", "INITIALEN", t_id,
               "TITELS_VOOR_ACHTER">>),
        Labels(<<"TITELS_VOOR", "TITELS_VOOR", "TITELS_VOOR", "INITIALEN", t_id \o ",",
               "TITELS_VOOR_ACHTER">>),
        Labels(<<"TITELS_VOOR", "TITELS_VOOR", "TITELS_VOOR", "INITIALEN", t_id>>),
        Labels(<<"TITELS_VOOR", "TITELS_VOOR", "TITELS_VOOR", "TITELS_VOOR", t_id>>),
        Labels(<<"TITELS_VOOR", "TITELS_VOOR", "INITIALEN", t_id, "TITELS_ACHTER">>),
        Labels(<<"TITELS_VOOR", "TITELS_VOOR", "INITIALEN", t_id \o ",",
               "TITELS_ACHTER">>),
        Labels(<<"TITELS_VOOR", "TITELS_VOOR", "INITIALEN", t_id,
               "TITELS_VOOR_ACHTER">>),
        Labels(<<"TITELS_VOOR", "TITELS_VOOR", "INITIALEN", t_id \o ",",
               "TITELS_VOOR_ACHTER">>),
        Labels(<<"TITELS_VOOR", "TITELS_VOOR", "TITELS_VOOR", t_id, "INITIALEN">>),
        Labels(<<"TITELS_VOOR", "TITELS_VOOR", "TITELS_VOOR", t_id \o ",",
               "INITIALEN">>),
        Labels(<<"TITELS_VOOR", "TITELS_VOOR", "INITIALEN", t_id>>),
        Labels(<<"TITELS_VOOR", "TITELS_VOOR", "TITELS_VOOR", t_id>>),
        Labels(<<"TITELS_VOOR", "TITELS_VOOR", t_id, "INITIALEN">>),
        Labels(<<"TITELS_VOOR", "TITELS_VOOR", t_id \o ",", "INITIALEN">>),
        Labels(<<"TITELS_VOOR", "TITELS_VOOR", t_id, "TITELS_VOOR_ACHTER">>),
        Labels(<<"TITELS_VOOR", "TITELS_VOOR", t_id \o ",", "TITELS_VOOR_ACHTER">>),
        Labels(<<"TITELS_VOOR", "TITELS_VOOR", t_id, "TITELS_ACHTER">>),
        Labels(<<"TITELS_VOOR", "TITELS_VOOR", t_id \o ",", "TITELS_ACHTER">>),
        Labels(<<"TITELS_VOOR", t_id, "INITIALEN", "VOORNAAM">>),
        Labels(<<"TITELS_VOOR", t_id \o ",", "INITIALEN", "VOORNAAM">>),
        Labels(<<"TITELS_VOOR", t_id, "INITIALEN", "TITELS_ACHTER">>),
        Labels(<<"TITELS_VOOR_ACHTER", t_id, "INITIALEN", "TITELS_ACHTER">>),
        Labels(<<"TITELS_VOOR_ACHTER", t_id, "INITIALEN", "TITELS_VOOR_ACHTER">>),
        Labels(<<"TITELS_VOOR", t_id, "INITIALEN", "TITELS_VOOR_ACHTER">>),
        Labels(<<"TITELS_VOOR", t_id \o ",", "INITIALEN", "TITELS_ACHTER">>),
        Labels(<<"TITELS_VOOR_ACHTER", t_id \o ",", "INITIALEN", "TITELS_ACHTER">>),
        Labels(<<"TITELS_VOOR_ACHTER", t_id \o ",", "INITIALEN", "TITELS_VOOR_ACHTER">>),
        Labels(<<"TITELS_VOOR", t_id \o ",", "INITIALEN", "TITELS_VOOR_ACHTER">>),
        Labels(<<"TITELS_VOOR", "INITIALEN", t_id>>),
        Labels(<<"TITELS_VOOR", "INITIALEN,", t_id>>),
        Labels(<<"TITELS_VOOR", t_id, t_id>>),
        Labels(<<"TITELS_VOOR_ACHTER", "INITIALEN", t_id>>),
        Labels(<<"TITELS_VOOR_ACHTER", "INITIALEN,", t_id>>),
        Labels(<<"TITELS_VOOR_ACHTER", t_id, t_id>>),
        Labels(<<"TITELS_VOOR", "TITELS_VOOR", t_id>>),
        Labels(<<"TITELS_VOOR", t_id, "INITIALEN">>),
        Labels(<<"TITELS_VOOR", t_id \o ",", "INITIALEN">>),
        Labels(<<"INITIALEN", t_id, "TITELS_ACHTER">>),
        Labels(<<"INITIALEN", t_id \o ",", "TITELS_ACHTER">>),
        Labels(<<"TITELS_VOOR", t_id, "TITELS_ACHTER">>),
        Labels(<<"TITELS_VOOR", t_id \o ",", "TITELS_ACHTER">>),
        Labels(<<"VOORNAAM", t_id, "TITELS_ACHTER">>),
        Labels(<<t_id, t_id, "TITELS_ACHTER">>),
        Labels(<<"VOORNAAM", t_id \o ",", "TITELS_ACHTER">>),
        Labels(<<t_id, t_id \o ",", "TITELS_ACHTER">>),
        Labels(<<"TITELS_ACHTER", "VOORNAAM", t_id>>),
        Labels(<<"TITELS_ACHTER", t_id, t_id>>),
        Labels(<<"TITELS_VOOR_ACHTER", t_id, "INITIALEN">>),
        Labels(<<"TITELS_VOOR_ACHTER", t_id \o ",", "INITIALEN">>),
        Labels(<<"INITIALEN", t_id, "TITELS_VOOR_ACHTER">>),
        Labels(<<"INITIALEN", t_id \o ",", "TITELS_VOOR_ACHTER">>),
        Labels(<<"TITELS_VOOR", t_id, "TITELS_VOOR_ACHTER">>),
        Labels(<<"TITELS_VOOR_ACHTER", t_id \o ",", "TITELS_ACHTER">>),
        Labels(<<"TITELS_VOOR", t_id \o ",", "TITELS_VOOR_ACHTER">>),
        Labels(<<"TITELS_VOOR_ACHTER", t_id \o ",", "TITELS_VOOR_ACHTER">>),
        Labels(<<"TITELS_VOOR_ACHTER", t_id \o ",", "TITELS_VOOR_ACHTER">>),
        Labels(<<"VOORNAAM", t_id, "TITELS_VOOR_ACHTER">>),
        Labels(<<t_id, t_id, "TITELS_VOOR_ACHTER">>),
        Labels(<<"VOORNAAM", t_id \o ",", "TITELS_VOOR_ACHTER">>),
        Labels(<<t_id, t_id \o ",", "TITELS_VOOR_ACHTER">>),
        Labels(<<"TITELS_VOOR_ACHTER", "VOORNAAM", t_id>>),
        Labels(<<"TITELS_VOOR_ACHTER", t_id, t_id>>),
        Labels(<<t_id, t_id, "TITELS_VOOR_ACHTER">>),
        Labels(<<t_id, t_id \o ",", "TITELS_VOOR_ACHTER">>),
        Labels(<<"TITELS_VOOR_ACHTER", t_id, t_id>>),
        Labels(<<"INITIALEN", "VOORNAAM", t_id>>),
        Labels(<<"INITIALEN", "ACHTERNAAM", t_id>>),
        Labels(<<"TITELS_VOOR", t_id, "W_ACHTERNAAM">>),
        Labels(<<"TITELS_VOOR_ACHTER", t_id, "W_ACHTERNAAM">>),
        Labels(<<t_id, "W_ACHTERNAAM", "TITELS_VOOR_ACHTER">>),
        Labels(<<t_id, "W_ACHTERNAAM,", "TITELS_VOOR_ACHTER">>),
        Misspelled("", "TITELS_VOOR_ACHTER"),
        Misspelled(":", "TITELS_VOOR_ACHTER"),
        HintTitleTemp("PERSOON_HINT_VOOR", "TITELS_VOOR_ACHTER", "TEMP_PERSOON"),
        Misspelled("", "TITELS_VOOR"),
        Misspelled(":", "TITELS_VOOR"),
        HintTitleTemp("PERSOON_HINT_VOOR", "TITELS_VOOR", "TEMP_PERSOON"),
        Labels(<<"INITIALEN", "ACHTERNAAM">>),
        Labels(<<"INITIALEN,", "ACHTERNAAM">>),
        Labels(<<"TITELS_VOOR", t_id>>),
        Labels(<<"TITELS_VOOR,", t_id>>),
        Labels(<<t_id, "TITELS_ACHTER">>),
        Labels(<<t_id \o ",", "TITELS_ACHTER">>),
        Labels(<<"TITELS_VOOR_ACHTER", t_id>>),
        Labels(<<"TITELS_VOOR_ACHTER,", t_id>>),
        Labels(<<"ACHTERNAAM", "TITELS_VOOR_ACHTER">>),
        Labels(<<"ACHTERNAAM", "TITELS_ACHTER">>),
        Labels(<<t_id \o ",", "TITELS_VOOR_ACHTER">>),
        Labels(<<"ACHTERNAAM", "INITIALEN">>),
        Labels(<<"ACHTERNAAM,", "INITIALEN">>),
        Labels(<<"ACHTERNAAM", "ACHTERNAAM">>),
        Labels(<<"ACHTERNAAM.", "ACHTERNAAM">>),
        Labels(<<"ACHTERNAAM,", "ACHTERNAAM">>),
        Labels(<<"VOORNAAM", "ACHTERNAAM">>),
        Labels(<<"ACHTERNAAM,", "VOORNAAM">>),
        CueBefore("PERSOON_HINT_VOOR", t_id),
        CueAfter("ACHTERNAAM", "PERSOON_HINT_ACHTER", FALSE),
        CueAfter("ACHTERNAAM", "PERSOON_HINT_ACHTER", TRUE)
    >>

replace_text_persons(e, pattern, t_id) ==
    replace_matches(e, FindallRe(e.report, 1, pattern), t_id)

RECURSIVE MergeLoop(_, _, _, _)
\* the patterns number lo to hi, one after the other (first half, then second half)
MergeLoop(e, patterns, lo, hi) ==
    IF lo > hi THEN e
    ELSE IF lo = hi
    THEN replace_text_persons(e, patterns[lo].pattern, patterns[lo].t_id)
    ELSE LET mid == (lo + hi) \div 2
             e1 == MergeLoop(e, patterns, lo, mid)
         IN  IF e1.raised THEN e1 ELSE MergeLoop(e1, patterns, mid + 1, hi)

\* every pattern of the list, in order
MergeAll(e, patterns) == MergeLoop(e, patterns, 1, Len(patterns))

\* the patterns of one turn of "for t_id in [id_1, id_2]", on the text e1 of
\* the turn before
MergeTurn(e1, t_id) == IF e1.raised THEN e1 ELSE MergeAll(e1, MergePatterns(t_id))

\* a faulty variant of replace_intermediate_labels: initials chain with a
\* whitelisted surname too
replace_intermediate_labels_initials(e) ==
    MergeAll(MergeTurn(MergeTurn(e, "ACHTERNAAM"), "W_ACHTERNAAM"),
             <<Labels(<<"INITIALEN", "W_ACHTERNAAM">>), Labels(<<"W_ACHTERNAAM", "INITIALEN">>),
               Labels(<<"W_ACHTERNAAM,", "INITIALEN">>)>>)

\* for t_id in [id_1, id_2]
replace_intermediate_labels(e) == MergeTurn(MergeTurn(e, "ACHTERNAAM"), "W_ACHTERNAAM")

(***************************************************************************)
(* revert_intermediate_labels                                              *)
(***************************************************************************)
\* a faulty variant of RevertedKinds: the whitelisted surnames are left out
RevertedKindsPlain ==
    <<"INITIALEN", "TITELS_VOOR", "TITELS_ACHTER", "TITELS_VOOR_ACHTER", "ACHTERNAAM",
      "PERSOON_HINT_VOOR", "PERSOON_HINT_ACHTER", "VOORNAAM">>

\* a faulty variant of RevertedKinds: the titles behind a name are left out
RevertedKindsNoTitlesAfter ==
    <<"INITIALEN", "TITELS_VOOR", "TITELS_VOOR_ACHTER", "ACHTERNAAM",
      "PERSOON_HINT_VOOR", "PERSOON_HINT_ACHTER", "VOORNAAM", "W_ACHTERNAAM">>

\* the kinds of label that are reverted, in the order of the code
RevertedKinds ==
    <<"INITIALEN", "TITELS_VOOR", "TITELS_ACHTER", "TITELS_VOOR_ACHTER", "ACHTERNAAM",
      "PERSOON_HINT_VOOR", "PERSOON_HINT_ACHTER", "VOORNAAM", "W_ACHTERNAAM">>

RECURSIVE MatchesOfKinds(_, _)
\* matches_initials, matches_titles_before, ... : found before any is reverted
MatchesOfKinds(report, kinds) ==
    IF Len(kinds) = 0 THEN <<>>
    ELSE FindallRe(report, 1, LabelOf(kinds[1])) \o MatchesOfKinds(report, Tail(kinds))

RECURSIVE RevertLoop(_, _)
\* replace_dict[match] raises KeyError for a label the map does not hold
RevertLoop(e, matches) ==
    IF Len(matches) = 0 THEN e
    ELSE IF ~DictHas(e.replace_dict, matches[1]) THEN Raise(e)
    ELSE RevertLoop([e EXCEPT !.report =
                        SubFirst("no_escape", e.report, matches[1], NoCtx,
                                 DictGet(e.replace_dict, matches[1]))],
                    Tail(matches))

revert_intermediate_labels(e) == RevertLoop(e, MatchesOfKinds(e.report, RevertedKinds))

(***************************************************************************)
(* postprocess_report                                                      *)
(***************************************************************************)
\* <[A-Z_]+[0-9]+>
LabelPattern == <<Lit("<"), Plus("upper_"), Plus("digit"), Lit(">")>>

RECURSIVE AllButLast(_)
AllButLast(parts) == IF Len(parts) <= 1 THEN <<>> ELSE <<parts[1]>> \o AllButLast(Tail(parts))
\* "_".join(key.split("_")[:-1]) + ">"
TagOf(key) == Join("_", AllButLast(SplitOn(key, {"_"}))) \o ">"

InSeq(x, seq) == \E i \in 1..Len(seq) : seq[i] = x
RECURSIVE Without(_, _)
Without(seq, matches) ==
    IF Len(seq) = 0 THEN <<>>
    ELSE (IF InSeq(seq[1], matches) THEN <<>> ELSE <<seq[1]>>) \o Without(Tail(seq), matches)

RECURSIVE SubMatchLoop(_, _, _)
\* st.report_copy and st.span_end while the labels inside a person label
\* are expanded
SubMatchLoop(st, sub_matches, replace_dict) ==
    IF st.raised \/ Len(sub_matches) = 0 THEN st
    ELSE LET sub_match == sub_matches[1]
         IN  IF ~DictHas(replace_dict, sub_match) THEN [st EXCEPT !.raised = TRUE]
             ELSE LET original == DictGet(replace_dict, sub_match)
                  IN  SubMatchLoop(
                        [st EXCEPT !.span_end = Find(st.report_copy, sub_match) - 1
                                                + Len(original),
                                   !.report_copy = ReplaceAll(st.report_copy, 1,
                                                              sub_match, original)],
                        Tail(sub_matches), replace_dict)

RECURSIVE SpanLoop(_, _, _, _)
\* st.report_copy and st.labels while the labels of the text are expanded
SpanLoop(st, todo, matches, replace_dict) ==
    IF st.raised \/ Len(todo) = 0 THEN st
    ELSE LET match == todo[1]
         IN  IF ~DictHas(replace_dict, match) THEN [st EXCEPT !.raised = TRUE]
             ELSE LET original == DictGet(replace_dict, match)
                      span_start == Find(st.report_copy, match) - 1
                      expanded == ReplaceAll(st.report_copy, 1, match, original)
                  IN  IF Contains(match, "PERSOON")
                      THEN LET sub_matches == Without(FindallRe(expanded, 1, LabelPattern),
                                                      matches)
                               sub == SubMatchLoop(
                                        [report_copy |-> expanded,
                                         span_end |-> span_start + Len(original),
                                         raised |-> FALSE],
                                        sub_matches, replace_dict)
                           IN  IF sub.raised THEN [st EXCEPT !.raised = TRUE]
                               ELSE SpanLoop(
                                      [st EXCEPT !.report_copy = sub.report_copy,
                                                 !.labels = Append(@,
                                                     <<span_start, sub.span_end, "<PERSOON>">>)],
                                      Tail(todo), matches, replace_dict)
                      ELSE SpanLoop(
                             [st EXCEPT !.report_copy = expanded,
                                        !.labels = Append(@,
                                            <<span_start, span_start + Len(original),
                                              TagOf(match)>>)],
                             Tail(todo), matches, replace_dict)

\* labels: the spans of the labels of the text, in the original text
SpansOf(report, replace_dict) ==
    LET matches == FindallRe(report, 1, LabelPattern)
    IN  SpanLoop([report_copy |-> report, labels |-> <<>>, raised |-> FALSE],
                 matches, matches, replace_dict)

RECURSIVE CleanTags(_, _)
\* every key of the map is replaced by its tag, all over the text (a key is
\* a label, which as a pattern matches itself only)
CleanTags(report, replace_dict) ==
    IF Len(replace_dict) = 0 THEN report
    ELSE CleanTags(ReplaceAll(report, 1, replace_dict[1].k, TagOf(replace_dict[1].k)),
                   Tail(replace_dict))

(***************************************************************************)
(* export_reports_from_annotations: a text rebuilt from its annotation     *)
(***************************************************************************)
\* text[:i] and text[i:] of Python for any integer i
PyUntil(text, i) ==
    LET j == IF i < 0 THEN i + Len(text) ELSE i
    IN  SubSeq(text, 1, IF j < 0 THEN 0 ELSE IF j > Len(text) THEN Len(text) ELSE j)
PyAfter(text, i) ==
    LET j == IF i < 0 THEN i + Len(text) ELSE i
    IN  SubSeq(text, (IF j < 0 THEN 0 ELSE j) + 1, Len(text))

RECURSIVE InsertByStart(_, _)
\* a stable insertion that keeps the starts descending
InsertByStart(sorted, label) ==
    IF Len(sorted) = 0 THEN <<label>>
    ELSE IF sorted[1][1] >= label[1] THEN <<sorted[1]>> \o InsertByStart(Tail(sorted), label)
    ELSE <<label>> \o sorted
RECURSIVE sorted_labels(_)
\* sorted(labels, key=lambda x: x[0], reverse=True)
sorted_labels(labels) ==
    IF Len(labels) = 0 THEN <<>>
    ELSE InsertByStart(sorted_labels(AllButLast(labels)), labels[Len(labels)])

RECURSIVE ApplyLabels(_, _)
ApplyLabels(text, labels) ==
    IF Len(labels) = 0 THEN text
    ELSE ApplyLabels(PyUntil(text, labels[1][1]) \o labels[1][3] \o PyAfter(text, labels[1][2]),
                     Tail(labels))
\* the anonymized report that the export script writes for an annotation
Exported(annotation) == ApplyLabels(annotation.text, sorted_labels(annotation.labels))

(***************************************************************************)
(* anonymize_report: the body of each of its loops and its last steps      *)
(***************************************************************************)
EntityKinds == {"person", "date", "time", "internal_phone_number", "patient_id",
                "z_number", "report_id", "location"}

\* a faulty variant of Anonymizes: every detector runs, whatever is enabled
AnonymizesAny(entities, kind) == TRUE

\* "if kind in self.entities_to_anonymize"
Anonymizes(entities, kind) == kind \in entities

\* the calls of a detector that runs only if its entity kind is anonymized
IfKind(entities, kind, calls) == When(Anonymizes(entities, kind), calls)

\* for five_gram in report_5_grams
five_gram_body(ents, g) ==
    IfKind(ents, "person", replace_family_names(g) \o replace_initials(g))
    \o IfKind(ents, "location", replace_cities(g))

\* for four_gram in report_4_grams
four_gram_body(ents, g) ==
    IfKind(ents, "person", replace_family_names(g))
    \o IfKind(ents, "date", replace_dates(g))
    \o IfKind(ents, "person", replace_initials(g))
    \o IfKind(ents, "location", replace_cities(g))

\* for three_gram in report_3_grams
three_gram_body(ents, g) ==
    IfKind(ents, "report_id", replace_reportid(g))
    \o IfKind(ents, "person", replace_titles(g) \o replace_family_names(g))
    \o IfKind(ents, "internal_phone_number", replace_phonenumbers(g))
    \o IfKind(ents, "time", replace_time(g))
    \o IfKind(ents, "date", replace_dates(g))
    \o IfKind(ents, "person", replace_initials(g))
    \o IfKind(ents, "location", replace_cities(g))

\* for two_gram in report_2_grams
two_gram_body(ents, g) ==
    IfKind(ents, "report_id", replace_reportid(g))
    \o IfKind(ents, "person", replace_titles(g) \o replace_cues(g) \o replace_family_names(g))
    \o IfKind(ents, "time", replace_time(g))
    \o IfKind(ents, "date", replace_dates(g))
    \o IfKind(ents, "internal_phone_number", replace_phonenumbers(g))
    \o IfKind(ents, "person", replace_initials(g))
    \o IfKind(ents, "location", replace_cities(g))

\* for token in report_1_grams
token_body(ents, g) ==
    IfKind(ents, "person", replace_titles(g) \o replace_cues(g) \o replace_family_names(g))
    \o IfKind(ents, "patient_id", replace_patientnumber(g))
    \o IfKind(ents, "z_number", replace_znumber(g))
    \o IfKind(ents, "internal_phone_number", replace_phonenumbers(g))
    \o IfKind(ents, "date", replace_dates(g))
    \o IfKind(ents, "time", replace_time(g))
    \o IfKind(ents, "person", replace_initials(g) \o replace_firstnames(g))
    \o IfKind(ents, "location", replace_cities(g))

\* the body of the loop over the n-grams of n tokens, for the n-gram g: the
\* calls its detectors make, run in order on the engine
n_gram_body(n, e, ents, g) ==
    Run(e, CASE n = 5 -> five_gram_body(ents, g)
             [] n = 4 -> four_gram_body(ents, g)
             [] n = 3 -> three_gram_body(ents, g)
             [] n = 2 -> two_gram_body(ents, g)
             [] n = 1 -> token_body(ents, g))

\* the Radboudumc preprocessors, for an engine that anonymizes persons
preprocess(e, ents) ==
    IF Anonymizes(ents, "person")
    THEN LET e1 == remove_report_status(e)
         IN  IF e1.raised THEN e1 ELSE remove_name_addendum(e1)
    ELSE e

(***************************************************************************)
(* The engine and one caller.  A call of anonymize_report is taken step    *)
(* by step: the preprocessors, one step for every n-gram of every loop,    *)
(* the merge, the reversion and the postprocessing.                        *)
(***************************************************************************)
VARIABLES
    entities_to_anonymize,  \* self.entities_to_anonymize
    replace_dict,           \* self.replace_dict
    counter,                \* self.counter
    original_report,        \* self.original_report
    annotations,            \* self.annotations
    pc,                     \* where the running call is: "idle" between calls
    report,                 \* the local variable report of anonymize_report
    grams,                  \* grams[n]: report_n_grams of the running call
    n,                      \* the loop the call is in (5 .. 1)
    idx,                    \* the next n-gram of that loop
    input,                  \* the argument of the last call
    result,                 \* what the last call returned
    outcome,                \* "none", "running", "returned" or "raised"
    calls_left              \* how many more calls the caller makes

vars == <<entities_to_anonymize, replace_dict, counter, original_report, annotations,
          pc, report, grams, n, idx, input, result, outcome, calls_left>>

\* the engine value the step operators work on
Engine == [report |-> report, replace_dict |-> replace_dict, counter |-> counter,
           raised |-> FALSE]

\* the first n-gram at or after loop m that exists: <<loop, index>>, <<0, 0>> if none
RECURSIVE FirstGram(_, _)
FirstGram(g, m) ==
    IF m < 1 THEN <<0, 0>> ELSE IF Len(g[m]) > 0 THEN <<m, 1>> ELSE FirstGram(g, m - 1)
\* the n-gram after number i of loop m
NextGram(g, m, i) == IF i < Len(g[m]) THEN <<m, i + 1>> ELSE FirstGram(g, m - 1)

\* the call goes on with the n-gram at pos, or with the merge
GoTo(pos) ==
    /\ pc' = IF pos[1] = 0 THEN "merge" ELSE "grams"
    /\ n' = pos[1]
    /\ idx' = pos[2]

\* an exception leaves anonymize_report: the engine keeps what e holds
Raised(e) ==
    /\ replace_dict' = e.replace_dict
    /\ counter' = e.counter
    /\ pc' = "idle"
    /\ outcome' = "raised"
    /\ report' = ""
    /\ grams' = <<>>
    /\ n' = 0
    /\ idx' = 0
    /\ UNCHANGED <<entities_to_anonymize, original_report, annotations, input, result,
                   calls_left>>

\* the call goes on with the text, the map and the counter of e
Continue(e) ==
    /\ report' = e.report
    /\ replace_dict' = e.replace_dict
    /\ counter' = e.counter
    /\ UNCHANGED <<entities_to_anonymize, original_report, annotations, grams, input,
                   result, outcome, calls_left>>

\* report_1_grams .. report_5_grams of tokenize_reports
tokenize_reports(text) ==
    LET sentences == tokenized_sentences(text)
    IN  [m \in 1..5 |-> report_n_grams(sentences, m)]

\* the n-grams of the five loops in the order they are taken: <<loop, index>>
GramOrder(g) ==
    [i \in 1..Len(g[5]) |-> <<5, i>>] \o [i \in 1..Len(g[4]) |-> <<4, i>>]
    \o [i \in 1..Len(g[3]) |-> <<3, i>>] \o [i \in 1..Len(g[2]) |-> <<2, i>>]
    \o [i \in 1..Len(g[1]) |-> <<1, i>>]

RECURSIVE GramLoops(_, _, _, _, _, _)
\* the loop bodies for the n-grams number lo to hi of the order (first half,
\* then second half)
GramLoops(e, ents, g, order, lo, hi) ==
    IF lo > hi THEN e
    ELSE IF lo = hi THEN n_gram_body(order[lo][1], e, ents, g[order[lo][1]][order[lo][2]])
    ELSE LET mid == (lo + hi) \div 2
             e1 == GramLoops(e, ents, g, order, lo, mid)
         IN  IF e1.raised THEN e1 ELSE GramLoops(e1, ents, g, order, mid + 1, hi)

\* a whole call of anonymize_report on an engine with the given map and
\* counter: what it returns and what it leaves in the engine
anonymize_report(text, dict, count, ents) ==
    LET cleaned == clean_report(text)
        g == tokenize_reports(cleaned)
        e0 == [report |-> cleaned, replace_dict |-> dict, counter |-> count,
               raised |-> FALSE]
        e1 == preprocess(e0, ents)
        e2 == IF e1.raised THEN e1
              ELSE GramLoops(e1, ents, g, GramOrder(g), 1, Len(GramOrder(g)))
        e3 == IF e2.raised THEN e2 ELSE replace_intermediate_labels(e2)
        e4 == IF e3.raised THEN e3 ELSE revert_intermediate_labels(e3)
        spans == SpansOf(e4.report, e4.replace_dict)
    IN  IF e4.raised \/ spans.raised
        THEN [outcome |-> "raised", result |-> "", labels |-> <<>>,
              replace_dict |-> e4.replace_dict, counter |-> e4.counter]
        ELSE [outcome |-> "returned", result |-> CleanTags(e4.report, e4.replace_dict),
              labels |-> spans.labels, replace_dict |-> <<>>, counter |-> e4.counter]

(***************************************************************************)
(* The caller: the reports it hands to the engine                          *)
(***************************************************************************)
\* how many reports the caller has anonymized by one engine
MaxCalls == 2

\* self.counter = 10000
BaseCounter == 10000

\* the reports of the caller
Reports == {
    "collega dr. J. Hendrix, arts",
    "Bakker belde. collega dr Bakker",
    "collega dr Bakker",
    "Visser",
    "dr Visser",
    "Visser. dr Visser",
    "x\n\n\nAB\nverslagstatus\n\n\nAB\nverslagstatus",
    "x\n\n\nAB\nverslagstatus\nADDENDUM: >> door J (",
    "ADDENDUM: >> door Jansen, J.",
    "op 12-01-2020 om 14:30 uur",
    "sein 1234 en 1234567 z123456 te Nijmegen T 14-15616" }

\* Anonymizer.__init__ with every entity kind, and a caller with MaxCalls reports
Init ==
    /\ entities_to_anonymize = EntityKinds
    /\ replace_dict = <<>>
    /\ counter = BaseCounter
    /\ original_report = ""
    /\ annotations = <<>>
    /\ pc = "idle"
    /\ report = ""
    /\ grams = <<>>
    /\ n = 0
    /\ idx = 0
    /\ input = ""
    /\ result = ""
    /\ outcome = "none"
    /\ calls_left = MaxCalls

\* anonymize_report(r) up to "self.original_report = report"
AnonymizeReport(r) ==
    /\ pc = "idle"
    /\ calls_left > 0
    /\ calls_left' = calls_left - 1
    /\ input' = r
    /\ result' = ""
    /\ outcome' = "running"
    /\ report' = clean_report(r)
    /\ grams' = tokenize_reports(report')
    /\ original_report' = report'
    /\ IF Anonymizes(entities_to_anonymize, "person")
       THEN pc' = "status" /\ n' = 0 /\ idx' = 0
       ELSE GoTo(FirstGram(grams', 5))
    /\ UNCHANGED <<entities_to_anonymize, replace_dict, counter, annotations>>

\* where a call goes on: at a stage of its own, or at the n-gram at pos (the
\* merge, if there is none)
Stage(name) == <<name, n, idx>>
GramAt(pos) == <<IF pos[1] = 0 THEN "merge" ELSE "grams", pos[1], pos[2]>>

\* the step that made e of the engine ends: an exception leaves
\* anonymize_report, or the call goes on
Ends(e, to) ==
    IF e.raised THEN Raised(e)
    ELSE Continue(e) /\ pc' = to[1] /\ n' = to[2] /\ idx' = to[3]

\* report = self.remove_report_status(report)
RemoveReportStatus ==
    /\ pc = "status"
    /\ Ends(remove_report_status(Engine), Stage("addendum"))

\* report = self.remove_name_addendum(report)
RemoveNameAddendum ==
    /\ pc = "addendum"
    /\ Ends(remove_name_addendum(Engine), GramAt(FirstGram(grams, 5)))

\* one turn of "for five_gram in report_5_grams"
FiveGrams ==
    /\ pc = "grams"
    /\ n = 5
    /\ Ends(n_gram_body(5, Engine, entities_to_anonymize, grams[5][idx]),
            GramAt(NextGram(grams, 5, idx)))

\* one turn of "for four_gram in report_4_grams"
FourGrams ==
    /\ pc = "grams"
    /\ n = 4
    /\ Ends(n_gram_body(4, Engine, entities_to_anonymize, grams[4][idx]),
            GramAt(NextGram(grams, 4, idx)))

\* one turn of "for three_gram in report_3_grams"
ThreeGrams ==
    /\ pc = "grams"
    /\ n = 3
    /\ Ends(n_gram_body(3, Engine, entities_to_anonymize, grams[3][idx]),
            GramAt(NextGram(grams, 3, idx)))

\* one turn of "for two_gram in report_2_grams"
TwoGrams ==
    /\ pc = "grams"
    /\ n = 2
    /\ Ends(n_gram_body(2, Engine, entities_to_anonymize, grams[2][idx]),
            GramAt(NextGram(grams, 2, idx)))

\* one turn of "for token in report_1_grams"
Tokens ==
    /\ pc = "grams"
    /\ n = 1
    /\ Ends(n_gram_body(1, Engine, entities_to_anonymize, grams[1][idx]),
            GramAt(NextGram(grams, 1, idx)))

\* report = self.replace_intermediate_labels(report)
ReplaceIntermediateLabels ==
    /\ pc = "merge"
    /\ Ends(replace_intermediate_labels(Engine), Stage("revert"))

\* report = self.revert_intermediate_labels(report)
RevertIntermediateLabels ==
    /\ pc = "revert"
    /\ Ends(revert_intermediate_labels(Engine), Stage("post"))

\* the end of postprocess_report, where spans holds its labels: the
\* annotation is appended, the tags are cleaned, the map is reset
Returns(spans) ==
    IF spans.raised THEN Raised(Engine)
    ELSE /\ annotations' = Append(annotations,
                                  [text |-> original_report, labels |-> spans.labels])
         /\ result' = CleanTags(report, replace_dict)
         /\ replace_dict' = <<>>
         /\ outcome' = "returned"
         /\ pc' = "idle"
         /\ report' = ""
         /\ grams' = <<>>
         /\ n' = 0
         /\ idx' = 0
         /\ UNCHANGED <<entities_to_anonymize, counter, original_report, input, calls_left>>

\* self.version
version == "v1.0.0"

\* a faulty variant of add_metadata: the entry is replaced by a new one with
\* the text and the metadata, and no labels
add_metadata_unlabelled(entries, index, meta_dict) ==
    LET at == IF index < 0 THEN Len(entries) + index + 1 ELSE index + 1
    IN  IF at < 1 \/ at > Len(entries) THEN entries
        ELSE [entries EXCEPT ![at] =
                 [text |-> @.text, labels |-> <<>>,
                  meta |-> [filename |-> meta_dict.filename, flagged |-> meta_dict.flagged,
                            rra_version |-> version]]]

\* add_metadata(index, meta_dict) on the list of annotations: entry index of
\* the list, counted from 0 or, if negative, from the end, gets the
\* metadata and the version under "meta"; an index outside the list raises
\* IndexError and the list stays as it is
add_metadata(entries, index, meta_dict) ==
    LET at == IF index < 0 THEN Len(entries) + index + 1 ELSE index + 1
    IN  IF at < 1 \/ at > Len(entries) THEN entries
        ELSE [entries EXCEPT ![at] =
                 [text |-> @.text, labels |-> @.labels,
                  meta |-> [filename |-> meta_dict.filename, flagged |-> meta_dict.flagged,
                            rra_version |-> version]]]

\* report = self.postprocess_report(report); return report
PostprocessReport ==
    /\ pc = "post"
    /\ Returns(SpansOf(report, replace_dict))

Next ==
    \/ \E r \in Reports : AnonymizeReport(r)
    \/ RemoveReportStatus
    \/ RemoveNameAddendum
    \/ FiveGrams
    \/ FourGrams
    \/ ThreeGrams
    \/ TwoGrams
    \/ Tokens
    \/ ReplaceIntermediateLabels
    \/ RevertIntermediateLabels
    \/ PostprocessReport

Spec == Init /\ [][Next]_vars


(***************************************************************************)
(* Engines of other configurations and of other pasts                      *)
(***************************************************************************)
\* the sets of entity kinds of the configurations: every kind but one, one
\* kind only, all and none
EntitySets ==
    {EntityKinds \ {kind} : kind \in EntityKinds}
    \cup {{kind} : kind \in EntityKinds}
    \cup {EntityKinds, {}}

\* an engine of any of the configurations, which anonymizes one report
InitEntities ==
    /\ entities_to_anonymize \in EntitySets
    /\ replace_dict = <<>>
    /\ counter = BaseCounter
    /\ original_report = ""
    /\ annotations = <<>>
    /\ pc = "idle"
    /\ report = ""
    /\ grams = <<>>
    /\ n = 0
    /\ idx = 0
    /\ input = ""
    /\ result = ""
    /\ outcome = "none"
    /\ calls_left = 1

SpecEntities == InitEntities /\ [][Next]_vars

\* the counter of an engine that has made 89999 substitutions in the reports
\* it returned before
LateCounter == 99999

\* a new engine and one with a long past, each anonymizing one report
InitHistory ==
    /\ entities_to_anonymize = EntityKinds
    /\ replace_dict = <<>>
    /\ counter \in {BaseCounter, LateCounter}
    /\ original_report = ""
    /\ annotations = <<>>
    /\ pc = "idle"
    /\ report = ""
    /\ grams = <<>>
    /\ n = 0
    /\ idx = 0
    /\ input = ""
    /\ result = ""
    /\ outcome = "none"
    /\ calls_left = 1

SpecHistory == InitHistory /\ [][Next]_vars

\* a step of the running call
Step ==
    \/ RemoveReportStatus
    \/ RemoveNameAddendum
    \/ FiveGrams
    \/ FourGrams
    \/ ThreeGrams
    \/ TwoGrams
    \/ Tokens
    \/ ReplaceIntermediateLabels
    \/ RevertIntermediateLabels
    \/ PostprocessReport

\* a new engine with every entity kind, which anonymizes one report
InitOnce ==
    /\ entities_to_anonymize = EntityKinds
    /\ replace_dict = <<>>
    /\ counter = BaseCounter
    /\ original_report = ""
    /\ annotations = <<>>
    /\ pc = "idle"
    /\ report = ""
    /\ grams = <<>>
    /\ n = 0
    /\ idx = 0
    /\ input = ""
    /\ result = ""
    /\ outcome = "none"
    /\ calls_left = 1

\* reports with a person and titles, with two surnames behind an initial,
\* with numbers of six to eight digits,
\* with a RECIST table, with a text that reads as a label, and with a
\* bracket in the name of the report status
Examples == {
    "Dr. J. Hendrix, internist",
    "Dr. J. Hendrix, internist. Zondag belde",
    "patientnummer 1234567",
    "nr 123456 of 12345678",
    "1234567",
    "pat 1234567, 7654321 en 1234567.",
    "code 1234567-1 en 2/1234567 en 1234567_a",
    "1234567 x=1234567 a1234567 1234567.5",
    "collega dr Jansen 1234567 op 12-01-2020",
    "recist 12-01-2020 1234 conclusie op 12-01-2020",
    "J. Jansen Visser",
    "J. Jansen Hendrix, collega Jansen, arts",
    "recist 3/4 conclusie 5/6",
    "recist 3/4 conclusie 3/4",
    "op <DATUM_12345> gezien",
    "x\n\n\nA(B\nverslagstatus" }

NextExamples == (\E r \in Examples : AnonymizeReport(r)) \/ Step

SpecExamples == InitOnce /\ [][NextExamples]_vars

\* the days 1 .. 31 and the months 1 .. 12 as they are written, with and
\* without a leading zero; the month names of the lookup lists; a year of
\* each century
DayTexts == {ToString(d) : d \in 1..31} \cup {"0" \o ToString(d) : d \in 1..9}
MonthTexts == {ToString(m) : m \in 1..12} \cup {"0" \o ToString(m) : m \in 1..9}
MonthNames == months \cup months_abbreviated
Years == {"1999", "2020"}

\* "D-M-YYYY", "D/M/YYYY" and "D monthname YYYY"
DateTexts ==
    {d \o sep \o m \o sep \o y : d \in DayTexts, m \in MonthTexts, sep \in {"-", "/"}, y \in Years}
    \cup {d \o " " \o m \o " " \o y : d \in DayTexts, m \in MonthNames, y \in Years}

\* the dates of the 14th, which also stand in a sentence
DatesInText == {d \in DateTexts : Prefix(d, 2) = "14"}

\* reports that are a date, and reports with a date in a sentence
DateReports == DateTexts \cup {"gezien op " \o d \o " in huis" : d \in DatesInText}

\* the lists of entity kinds a caller asks for: kinds of the engine, and a
\* kind it does not have
RequestedKinds ==
    {EntityKinds, {"person", "date"}, {"person", "email"}, EntityKinds \cup {"email"}}

\* before there is an engine
InitUnbuilt ==
    /\ entities_to_anonymize = {}
    /\ replace_dict = <<>>
    /\ counter = 0
    /\ original_report = ""
    /\ annotations = <<>>
    /\ pc = "unbuilt"
    /\ report = ""
    /\ grams = <<>>
    /\ n = 0
    /\ idx = 0
    /\ input = ""
    /\ result = ""
    /\ outcome = "none"
    /\ calls_left = 0

\* Anonymizer.__init__(entities_to_anonymize = entities), for a caller with
\* one report
Construct(entities) ==
    /\ pc = "unbuilt"
    /\ entities_to_anonymize' = entities
    /\ replace_dict' = <<>>
    /\ counter' = BaseCounter
    /\ original_report' = ""
    /\ annotations' = <<>>
    /\ pc' = "idle"
    /\ calls_left' = 1
    /\ UNCHANGED <<report, grams, n, idx, input, result, outcome>>

\* anonymize_reports.py up to "anonymizer = Anonymizer(...)": the input
\* validation raises NotImplementedError for a kind that is not supported
Main(entities) ==
    /\ pc = "unbuilt"
    /\ IF \E value \in entities : value \notin EntityKinds
       THEN /\ pc' = "rejected"
            /\ UNCHANGED <<entities_to_anonymize, replace_dict, counter, original_report,
                           annotations, report, grams, n, idx, input, result, outcome,
                           calls_left>>
       ELSE Construct(entities)

NextBuilt ==
    \/ \E entities \in RequestedKinds : Main(entities)
    \/ \E entities \in RequestedKinds : Construct(entities)
    \/ \E r \in Examples : AnonymizeReport(r)
    \/ Step

SpecBuilt == InitUnbuilt /\ [][NextBuilt]_vars

\* the caller hands a report to a new engine
FirstCall == calls_left = MaxCalls /\ \E r \in Reports : AnonymizeReport(r)

\* the caller hands the engine the text its last call returned
AnonymizeResult ==
    /\ calls_left < MaxCalls
    /\ outcome = "returned"
    /\ AnonymizeReport(result)

NextRerun == FirstCall \/ AnonymizeResult \/ Step

SpecRerun == Init /\ [][NextRerun]_vars

\* the most tokens of a line and the most lines of the reports below
MaxTokens == 5
MaxLines == 2

\* token j of line i, and what is written behind token j
TokenText(i, j) == <<"a", "b", "c", "d", "e", "f", "g">>[j] \o ToString(i)
WrittenBehind(j) == <<", ", " ", ".", "; ", " (", ") ", "? ">>[j]

RECURSIVE LineText(_, _, _)
\* line i with the tokens j .. k
LineText(i, j, k) ==
    IF j > k THEN ""
    ELSE TokenText(i, j) \o (IF j < k THEN WrittenBehind(j) ELSE "") \o LineText(i, j + 1, k)

RECURSIVE LinesText(_, _)
\* the lines i .. Len(ks), where line i has ks[i] tokens
LinesText(ks, i) ==
    IF i > Len(ks) THEN ""
    ELSE LineText(i, 1, ks[i]) \o (IF i < Len(ks) THEN "\n" ELSE "") \o LinesText(ks, i + 1)

\* reports of one to MaxLines lines with no to MaxTokens tokens each
LineReports ==
    {LinesText(ks, 1) : ks \in UNION {[1..m -> 0..MaxTokens] : m \in 1..MaxLines}}

NextLines == (\E r \in LineReports : AnonymizeReport(r)) \/ Step

SpecLines == InitOnce /\ [][NextLines]_vars

NextDates == (\E r \in DateReports : AnonymizeReport(r)) \/ Step

SpecDates == InitOnce /\ [][NextDates]_vars


(***************************************************************************)
(* The properties of the engine                                            *)
(***************************************************************************)
\* the annotation of the report the last call returned
LastAnnotation == annotations[Len(annotations)]

\* C1: for every report anonymize_report returns, the text of its
\* annotation with every recorded span [start, end) replaced by the span's
\* tag, as the export script replaces them, is the string that was returned.
ReconstructionIsResult ==
    outcome = "returned" => Exported(LastAnnotation) = result

\* <[A-Z_]+[0-9]*> : a placeholder tag, with a counter or without
PlaceholderTag == <<Lit("<"), Plus("upper_"), Rep("digit", 0, 0 - 1), Lit(">")>>

CanonicalTags == {"<PERSOON>", "<DATUM>", "<TIJD>", "<TELEFOONNUMMER>", "<PATIENTNUMMER>",
                  "<ZNUMMER>", "<PLAATS>", "<RAPPORT_ID>", "<GEAUTORISEERD>"}

Range(seq) == {seq[i] : i \in 1..Len(seq)}

\* C2: every placeholder tag in the text anonymize_report returns is one of
\* the nine canonical tags: no label with a counter and no label of another
\* kind is left.
OnlyCanonicalTags ==
    outcome = "returned" => Range(FindallRe(result, 1, PlaceholderTag)) \subseteq CanonicalTags


\* the counter a label carries, with the ">" that ends the label
CounterIn(key) == LET parts == SplitOn(key, {"_"}) IN parts[Len(parts)]

IsPrefix(d1, d2) == Len(d1) <= Len(d2) /\ SubSeq(d2, 1, Len(d1)) = d1

\* a step keeps the counter and empties the map or leaves it alone, or it
\* appends entries to the map, one for each value the counter passes, each
\* under a label that carries that value
CounterStep ==
    \/ counter' = counter /\ replace_dict' \in {<<>>, replace_dict}
    \/ /\ counter' > counter
       /\ IsPrefix(replace_dict, replace_dict')
       /\ Len(replace_dict') - Len(replace_dict) = counter' - counter
       /\ \A j \in 1..(counter' - counter) :
            CounterIn(replace_dict'[Len(replace_dict) + j].k) = ToString(counter + j - 1) \o ">"

\* C3: the counter is 10000 at construction, is never decreased or reset,
\* and is incremented exactly once for every entry written to the map; so
\* no two labels of an engine carry the same counter and no entry of the
\* map is overwritten.
CounterCountsEntries == counter = 10000 /\ [][CounterStep]_vars

\* two reports were returned, with twelve entries written between them
TwoReportsCounted == outcome = "returned" /\ Len(annotations) = 2 /\ counter = 10012


\* how many entries the map holds for a label, and how often the label
\* occurs in a text
EntriesOf(d, label) == Cardinality({i \in 1..Len(d) : d[i].k = label})
Occurrences(text, label) == Cardinality({i \in 1..Len(text) : StartsAt(text, i, label)})

\* C4: at every step of a call, every label in the working text has exactly
\* one entry in the map and occurs at most once in the working text.
LabelsHaveOneEntry ==
    pc # "idle" =>
        \A label \in Range(FindallRe(report, 1, LabelPattern)) :
            /\ EntriesOf(replace_dict, label) = 1
            /\ Occurrences(report, label) <= 1

\* C5: the map is empty at the start of every call of anonymize_report,
\* also of a call that follows one that did not complete normally.
MapEmptyAtStart == [][(pc = "idle" /\ pc' # "idle") => replace_dict = <<>>]_vars


\* what a new engine of the same configuration makes of the report
FreshEngine == anonymize_report(input, <<>>, BaseCounter, entities_to_anonymize)

\* C6: the text anonymize_report returns and the spans it records for a
\* report do not depend on what the engine processed before: an engine with
\* another past, hence another counter, gives what a new engine gives.
ResultIgnoresHistory ==
    outcome = "returned" =>
        /\ FreshEngine.outcome = "returned"
        /\ result = FreshEngine.result
        /\ LastAnnotation.labels = FreshEngine.labels


\* the canonical tags that stand for an entity kind
TagsOfKind(kind) ==
    CASE kind = "person" -> {"<PERSOON>", "<GEAUTORISEERD>"}
      [] kind = "date" -> {"<DATUM>"}
      [] kind = "time" -> {"<TIJD>"}
      [] kind = "internal_phone_number" -> {"<TELEFOONNUMMER>"}
      [] kind = "patient_id" -> {"<PATIENTNUMMER>"}
      [] kind = "z_number" -> {"<ZNUMMER>"}
      [] kind = "report_id" -> {"<RAPPORT_ID>"}
      [] kind = "location" -> {"<PLAATS>"}

\* C7: no tag of an entity kind that is not enabled is in the text returned
\* or in the annotation of a report; without "person" neither <PERSOON> nor
\* <GEAUTORISEERD>.
DisabledKindsLeaveNoTag ==
    outcome = "returned" =>
        \A kind \in EntityKinds \ entities_to_anonymize :
            \A tag \in TagsOfKind(kind) :
                /\ ~Contains(result, tag)
                /\ \A i \in 1..Len(LastAnnotation.labels) : LastAnnotation.labels[i][3] # tag

\* a report with a date and a time, returned by an engine that anonymizes
\* times and no dates
DateKeptTimeTagged ==
    /\ outcome = "returned"
    /\ "date" \notin entities_to_anonymize
    /\ result = "op 12-01-2020 om <TIJD>"


\* the kinds of label that stand for a part of a name
IntermediateKinds ==
    {"INITIALEN", "TITELS_VOOR", "TITELS_ACHTER", "TITELS_VOOR_ACHTER", "ACHTERNAAM",
     "W_ACHTERNAAM", "PERSOON_HINT_VOOR", "PERSOON_HINT_ACHTER", "VOORNAAM"}

\* the kind of a label <KIND_counter>
KindOf(label) == LET tag == TagOf(label) IN SubSeq(tag, 2, Len(tag) - 1)

\* the labels of a text, of the kinds given
LabelsIn(text, kinds) ==
    {label \in Range(FindallRe(text, 1, LabelPattern)) : KindOf(label) \in kinds}

RECURSIVE Restored(_, _, _)
\* the text from position i on, with every label of an intermediate kind
\* replaced by the original text the map holds for it
Restored(text, i, d) ==
    IF i > Len(text) THEN ""
    ELSE LET m == MatchAt(text, i, LabelPattern)
         IN  IF m.ok /\ KindOf(SubSeq(text, i, m.end - 1)) \in IntermediateKinds
             THEN DictGet(d, SubSeq(text, i, m.end - 1)) \o Restored(text, m.end, d)
             ELSE At(text, i) \o Restored(text, i + 1, d)

\* the step that is the reversion
Reversion == pc = "revert" /\ pc' = "post"

\* C8: after the reversion the working text holds no label of the kinds
\* initials, title (before, after, before and after), surname, whitelisted
\* surname, cue (before, after) and first name: each such label is replaced
\* by exactly the original text that the map holds for it.
ReversionRestoresOriginals ==
    [][Reversion =>
        /\ LabelsIn(report', IntermediateKinds) = {}
        /\ report' = Restored(report, 1, replace_dict)]_vars

\* after the reversion of the cue and the title after the name that the
\* merger left beside the person label
CueAndTitleReverted ==
    /\ pc = "post"
    /\ input = "collega dr. J. Hendrix, arts"
    /\ report = "collega <PERSOON_10005>, arts"


\* the kinds of label that no later step takes back; the preprocessor of
\* the addendum labels the person it finds as PERSOON
FinalKinds ==
    {"DATUM", "TIJD", "TELEFOONNUMMER", "PATIENTNUMMER", "ZNUMMER", "PLAATS", "RAPPORT_ID",
     "GEAUTORISEERD", "PERSOON"}

\* a step of a call that goes on keeps the labels of the final kinds
FinalLabelsStay ==
    (pc # "idle" /\ pc' # "idle") =>
        LabelsIn(report, FinalKinds) \subseteq LabelsIn(report', FinalKinds)

\* the spans of the annotation: one for each label of the text, in the order
\* of the text; that of a label of a final kind has the tag of the label and,
\* if the label is no person, is over the original text of the label
SpansMatch(spans, matches) ==
    /\ Len(spans) = Cardinality(Range(matches))
    /\ \A i \in 1..Len(spans) :
         KindOf(matches[i]) \in FinalKinds =>
            /\ spans[i][3] = TagOf(matches[i])
            /\ KindOf(matches[i]) # "PERSOON" =>
                 SubSeq(original_report, spans[i][1] + 1, spans[i][2])
                     = DictGet(replace_dict, matches[i])

OneSpanEach ==
    (pc = "post" /\ outcome' = "returned") =>
        SpansMatch(annotations'[Len(annotations')].labels, FindallRe(report, 1, LabelPattern))

\* C9: a label of kind date, time, phone number, patient number, Z-number,
\* location, report-id, report-status or addendum person stays in the
\* working text through all later steps of the call, and it yields exactly
\* one span of the annotation, with its canonical tag.
FinalLabelsKept == [][FinalLabelsStay /\ OneSpanEach]_vars


\* a capitalized token of the surname list that the whitelist holds too
WhitelistedSurname(tok) ==
    /\ At(tok, 1) \in UpperChars
    /\ lower(tok) \in family_names
    /\ lower(tok) \in whitelist

\* the token stands in the text as a word
WordAt(text, tok) ==
    \E i \in 1..Len(text) :
        /\ StartsAt(text, i, tok)
        /\ At(text, i - 1) \notin WordChars
        /\ At(text, i + Len(tok)) \notin WordChars

\* where a label of one of the kinds starts and where the text goes on
\* after it
LabelSpans(text, kinds) ==
    {<<i, MatchAt(text, i, LabelPattern).end>> :
        i \in {j \in 1..Len(text) :
                /\ MatchAt(text, j, LabelPattern).ok
                /\ KindOf(SubSeq(text, j, MatchAt(text, j, LabelPattern).end - 1)) \in kinds}}

\* what the patterns of the merger allow between two labels
Gaps == {"", " ", ",", ", "}

\* no label of a part of a name stands next to the label
Isolated(text, label) ==
    LET from == Find(text, label)
        to == from + Len(label)
    IN  \A span \in LabelSpans(text, IntermediateKinds) :
            /\ span[2] <= from => SubSeq(text, span[2], from - 1) \notin Gaps
            /\ span[1] >= to => SubSeq(text, to, span[1] - 1) \notin Gaps

\* the labels of the whitelisted surnames that stand alone
IsolatedSurnames(text, d) ==
    {label \in LabelsIn(text, {"W_ACHTERNAAM"}) :
        WhitelistedSurname(DictGet(d, label)) /\ Isolated(text, label)}

\* the turn of the token loop for a whitelisted surname labels it as one
SurnameLabelled ==
    (pc = "grams" /\ n = 1 /\ pc' # "idle"
        /\ WhitelistedSurname(grams[1][idx][1]) /\ WordAt(report, grams[1][idx][1])) =>
        /\ ~WordAt(report', grams[1][idx][1])
        /\ \E i \in (Len(replace_dict) + 1)..Len(replace_dict') :
             /\ replace_dict'[i].v = grams[1][idx][1]
             /\ KindOf(replace_dict'[i].k) = "W_ACHTERNAAM"
             /\ Contains(report', replace_dict'[i].k)

\* the merger leaves the label of a whitelisted surname that stands alone
MergerKeepsSurname ==
    (pc = "merge" /\ pc' = "revert") =>
        \A label \in IsolatedSurnames(report, replace_dict) : Contains(report', label)

\* the reversion puts the surname where its label was
SurnameRestored ==
    Reversion =>
        \A label \in LabelsIn(report, {"W_ACHTERNAAM"}) :
            IsPrefix(Restored(SubSeq(report, 1, Find(report, label) - 1), 1, replace_dict)
                        \o DictGet(replace_dict, label),
                     report')

\* C10: a capitalized token of the surname list and of the whitelist, with
\* no label of a title, initials, a cue, a first name or another surname
\* next to it, never becomes <PERSOON>: it is labelled as a whitelisted
\* surname, the merger leaves the label, and the reversion puts the surname
\* back.
WhitelistedSurnameKept == [][SurnameLabelled /\ MergerKeepsSurname /\ SurnameRestored]_vars

\* the whitelisted surname that stands alone is returned as it was, the one
\* after a title is a person
LoneSurnameReturned ==
    /\ outcome = "returned"
    /\ input = "Visser. dr Visser"
    /\ result = "Visser. <PERSOON>"

\* the call on the report r is over
Done(r) == input = r /\ pc = "idle" /\ outcome \in {"returned", "raised"}

\* C11 (as stated): for "Dr. J. Hendrix, internist", with "hendrix" a
\* surname, "dr" a title before and "internist" a title behind a name,
\* anonymize_report returns "<PERSOON>, <TITELS_ACHTER>".
HendrixTitleTagged ==
    Done("Dr. J. Hendrix, internist")
        => outcome = "returned" /\ result = "<PERSOON>, <TITELS_ACHTER>"

\* C11 (amended): for that report anonymize_report returns
\* "<PERSOON>, internist": the title, the initial and the surname are one
\* person span, [0, 14) of the report, and the title behind the name, which
\* no pattern chained, is text again.
HendrixTitleReverted ==
    Done("Dr. J. Hendrix, internist")
        => /\ outcome = "returned"
           /\ result = "<PERSOON>, internist"
           /\ LastAnnotation.labels = <<<<0, 14, "<PERSOON>">>>>

HendrixReturned ==
    /\ Done("Dr. J. Hendrix, internist")
    /\ outcome = "returned"
    /\ Len(LastAnnotation.labels) = 1

\* the call on the report with the date d between pre and post returned the
\* report with one tag for the date, and recorded the span of the date
DateReplaced(pre, d, post) ==
    Done(pre \o d \o post)
        => /\ outcome = "returned"
           /\ result = pre \o "<DATUM>" \o post
           /\ LastAnnotation.labels = <<<<Len(pre), Len(pre) + Len(d), "<DATUM>">>>>

\* C12: with dates anonymized, a date "D monthname YYYY", "D-M-YYYY" or
\* "D/M/YYYY", for every day 1 .. 31, every month 1 .. 12 or month name and
\* a year that starts with 19 or 20, is replaced as a whole by one <DATUM>:
\* the output is the report with the tag in the place of the date, so that
\* no digit and no word of the date is left.
DatesReplacedWhole ==
    (pc = "idle" /\ outcome # "none")
        => /\ \A d \in DateTexts : DateReplaced("", d, "")
           /\ \A d \in DatesInText : DateReplaced("gezien op ", d, " in huis")

DateInSentenceReplaced ==
    /\ Done("gezien op 14 januari 2020 in huis")
    /\ result = "gezien op <DATUM> in huis"
    /\ "date" \in entities_to_anonymize

\* the tokens of the text that are seven digits
SevenDigitTokens(text) ==
    {t \in {g[1] : g \in Range(tokenize_reports(text)[1])} : Len(t) = 7 /\ isdigit(t)}

\* the characters a number is attached to a word or a longer number by
Attaching == WordChars \cup {"/", "-", "_"}

\* [start, end) of every seven-digit token where it stands detached
PatientNumbers(text) ==
    {<<i - 1, i + 6>> : i \in {j \in 1..(Len(text) - 6) :
                                  /\ SubSeq(text, j, j + 6) \in SevenDigitTokens(text)
                                  /\ At(text, j - 1) \notin Attaching
                                  /\ At(text, j + 7) \notin Attaching}}

\* the spans the annotation holds with the tag
SpansTagged(annotation, tag) ==
    {<<l[1], l[2]>> : l \in {x \in Range(annotation.labels) : x[3] = tag}}

\* C13: the spans tagged <PATIENTNUMMER> are the detached tokens of exactly
\* seven digits, each span its seven digits and nothing else: a token of six
\* or eight digits, or one attached to "/", "-" or "_", is never among them.
\* The output has one tag for every such span and is the report with the
\* spans replaced, so that the word before a number is left as it was.
PatientNumbersTagged ==
    (pc = "idle" /\ outcome = "returned")
        => /\ SpansTagged(LastAnnotation, "<PATIENTNUMMER>") = PatientNumbers(LastAnnotation.text)
           /\ Len(FindAll("no_escape", result, 1, "<PATIENTNUMMER>", NoCtx))
                 = Cardinality(PatientNumbers(LastAnnotation.text))
           /\ result = Exported(LastAnnotation)

PatientNumberReturned ==
    /\ Done("patientnummer 1234567")
    /\ result = "patientnummer <PATIENTNUMMER>"
    /\ LastAnnotation.labels = <<<<14, 21, "<PATIENTNUMMER>">>>>

\* the characters between the tokens of a line
Separators == SpaceChars \cup TokenDelimiters

\* the tokens of a line: the longest runs of characters that are no
\* separators, from left to right
TokensOfLine(line) ==
    LET starts == {i \in 1..Len(line) :
                      At(line, i) \notin Separators /\ At(line, i - 1) \in Separators \cup {""}}
        ends == {i \in 1..Len(line) :
                    At(line, i) \notin Separators /\ At(line, i + 1) \in Separators \cup {""}}
        nth(S, k) == CHOOSE x \in S : Cardinality({y \in S : y < x}) = k - 1
    IN  [k \in 1..Cardinality(starts) |-> SubSeq(line, nth(starts, k), nth(ends, k))]

\* how many n-grams of m tokens a line of k tokens has
Windows(k, m) == IF k >= m THEN k - m + 1 ELSE 0

RECURSIVE WindowsBefore(_, _, _)
\* how many n-grams of m tokens the lines before line i have
WindowsBefore(lines, i, m) ==
    IF i <= 1 THEN 0
    ELSE WindowsBefore(lines, i - 1, m) + Windows(Len(TokensOfLine(lines[i - 1])), m)

\* C14: for every size m in 1 .. 5 the n-grams of a report are, line after
\* line, the windows of m consecutive tokens of the line: a line of k tokens
\* has max(0, k - m + 1) of them, they follow those of the lines before, and
\* there is no other n-gram, so that none holds tokens of two lines.
NGramsStayInLine ==
    pc # "idle" =>
        LET lines == SplitOn(original_report, {"\n"})
        IN  \A m \in 1..5 :
                /\ Len(grams[m]) = WindowsBefore(lines, Len(lines) + 1, m)
                /\ \A i \in 1..Len(lines) :
                       \A w \in 1..Windows(Len(TokensOfLine(lines[i])), m) :
                           grams[m][WindowsBefore(lines, i, m) + w]
                               = SubSeq(TokensOfLine(lines[i]), w, w + m - 1)

TwoLinesTokenized ==
    /\ pc = "status"
    /\ original_report = "a1, b1 c1.d1; e1\na2, b2 c2"
    /\ Len(grams[5]) = 1
    /\ Len(grams[2]) = 6

\* the call that is over was made on a text the engine returned
Rerun == pc = "idle" /\ calls_left + 2 <= MaxCalls /\ outcome \in {"returned", "raised"}

\* C15: a call of anonymize_report on a text that anonymize_report returned
\* introduces no tag: no detector matches a canonical tag of that text, so
\* the call records no span, and it returns the text it was given, with the
\* same tags at the same places.
RerunAddsNoTag ==
    Rerun => /\ outcome = "returned"
             /\ LastAnnotation.labels = <<>>
             /\ result = input

\* C16: anonymize_report returns a result for every input: no call ends
\* with an exception, whatever the report holds.
NoCallRaises == outcome # "raised"

\* C17: a kind that is not supported, in the kinds asked for, is rejected
\* when the engine is constructed: there is never an engine, idle or at
\* work on a report, whose enabled kinds hold such a kind.
UnsupportedKindRejected ==
    pc \notin {"unbuilt", "rejected"} => entities_to_anonymize \subseteq EntityKinds

\* the patterns of the whole merge pass, in the order they are applied
PassPatterns == MergePatterns("ACHTERNAAM") \o MergePatterns("W_ACHTERNAAM")

\* the label sequences of the text that a pattern of the pass matches
LabelSequences(text) ==
    UNION {Range(FindallRe(text, 1, PassPatterns[i].pattern)) : i \in 1..Len(PassPatterns)}

\* the labels of a label sequence
LabelsOf(s) == Range(FindallRe(s, 1, LabelPattern))

\* no other label sequence of the text that shares a label with s has as
\* many labels as s
LongestThere(s, text) ==
    \A t \in LabelSequences(text) \ {s} :
        LabelsOf(t) \cap LabelsOf(s) # {} => Cardinality(LabelsOf(t)) < Cardinality(LabelsOf(s))

\* C18: over the whole merge pass, the patterns of more label tokens are
\* applied before the patterns of fewer: a label sequence that a pattern of
\* the pass matches, and that is longer than every other matched sequence
\* it shares a label with, is replaced as a whole (the map gets an entry for
\* the whole sequence), never broken up by a pattern of fewer labels.
LongestPatternFirst ==
    [][(pc = "merge" /\ pc' = "revert")
          => \A s \in LabelSequences(report) :
                 (LabelsOf(s) # {} /\ LongestThere(s, report))
                     => \E i \in 1..Len(replace_dict') : replace_dict'[i].v = s]_vars

\* the calls of the primitives that the turn of the loop at hand makes
StepCalls ==
    CASE n = 5 -> five_gram_body(entities_to_anonymize, grams[5][idx])
      [] n = 4 -> four_gram_body(entities_to_anonymize, grams[4][idx])
      [] n = 3 -> three_gram_body(entities_to_anonymize, grams[3][idx])
      [] n = 2 -> two_gram_body(entities_to_anonymize, grams[2][idx])
      [] n = 1 -> token_body(entities_to_anonymize, grams[1][idx])

\* the strings that the turn hands to the exception-guarded primitive, and
\* to no other primitive
GuardedCandidates ==
    {c.input_text : c \in {x \in Range(StepCalls) : x.kind = "exceptions"}}
    \ {c.input_text : c \in {x \in Range(StepCalls) : x.kind # "exceptions"}}

\* how often the string v stands in the table region of the text: from the
\* begin word to the end word, or to the end of the text
InTable(text, v) ==
    LET low == lower(text)
        first == Find(low, recist_table_delimiters.begin_word)
        last == IF Contains(low, recist_table_delimiters.end_word)
                THEN Find(low, recist_table_delimiters.end_word)
                ELSE Len(text)
    IN  IF ~Contains(low, recist_table_delimiters.begin_word) THEN 0
        ELSE Cardinality({i \in 1..Len(text) :
                             StartsAt(text, i, v) /\ i + Len(v) >= first /\ i <= last})

\* C19: the exception-guarded primitive, called with the table flag, never
\* replaces an occurrence of its candidate string inside the RECIST table
\* region: in a turn of a loop, every string handed to that primitive
\* stands in the table region as often after the turn as before it.
TableOccurrencesKept ==
    [][(pc = "grams" /\ pc' # "idle")
          => \A v \in GuardedCandidates : InTable(report', v) = InTable(report, v)]_vars

\* the day names and the month names of the date lookup lists
DayAndMonthNames == days \cup days_abbreviated \cup months \cup months_abbreviated

\* the recorded surface strings that are a day name or a month name and
\* carry the label of a plain surname
PlainSurnameDays ==
    {i \in 1..Len(replace_dict) :
        lower(replace_dict[i].v) \in DayAndMonthNames /\ KindOf(replace_dict[i].k) = "ACHTERNAAM"}

\* C20: after the construction of the engine every day name and every month
\* name of the date lookup lists is in the whitelist, and no surname equal
\* to one of them is labelled as a plain surname.
DayNamesWhitelisted ==
    pc \notin {"unbuilt", "rejected"}
        => DayAndMonthNames \subseteq whitelist /\ PlainSurnameDays = {}

(***************************************************************************)
(* Further reports, one call each on a new engine                          *)
(***************************************************************************)

\* reports with a date of four tokens, with a date next to a part of it,
\* with the same status block twice, with the names of cities behind a cue
\* word and elsewhere, and with the header of an addendum
Cases == {
    "op zondag 14 januari 2020 gezien",
    "ma 3 mei 1999",
    "14 januari 2020 en zondag 14 januari 2020",
    "x\n\n\nAB\nverslagstatus\n\n\nAB\nverslagstatus",
    "te Nijmegen",
    "in Nijmegen",
    "Nijmegen en te Nijmegen",
    "Den Haag, uit Den Haag",
    "te nijmegen en Nijmegen",
    "uit den Haag en Den Haag, den Haag",
    "te Nijmegen. Nijmegens en Nijmegen",
    "x\nADDENDUM: >> door Jansen, J.\ny",
    "x\nADDENDUM: >> door Sar, J.M. van der\ny",
    "x\nADDENDUM: >> door Jansen 3 arts\ny",
    "x\nADDENDUM: >> door A. Bakker op 12-01-2020\ny" }

NextCases == (\E r \in Cases : AnonymizeReport(r)) \/ Step

SpecCases == InitOnce /\ [][NextCases]_vars

\* the dates of four tokens: weekday, day, month name, year
FourTokenDates ==
    {wd \o " " \o d \o " " \o m \o " " \o y :
        wd \in days \cup days_abbreviated, d \in {"3", "14"}, m \in MonthNames, y \in Years}

\* the places (from 0) where the string d stands as whole tokens in the text
PlacesOf(d, text) ==
    {i - 1 : i \in {j \in 1..Len(text) :
                       /\ StartsAt(text, j, d)
                       /\ (j = 1 \/ At(text, j - 1) = " ")
                       /\ (j + Len(d) > Len(text) \/ At(text, j + Len(d)) = " ")}}

\* the spans of the annotation that hold a character of [from, to)
SpansIn(annotation, from, to) ==
    {i \in 1..Len(annotation.labels) :
        annotation.labels[i][1] < to /\ annotation.labels[i][2] > from}

\* no character of the text is in two spans of the annotation
NoCharacterTwice(annotation) ==
    \A i, j \in 1..Len(annotation.labels) :
        i # j => \/ annotation.labels[i][2] <= annotation.labels[j][1]
                 \/ annotation.labels[j][2] <= annotation.labels[i][1]

\* C21: candidates that overlap are resolved for the detector that runs
\* first: a date of four tokens "weekday day month year" gives one <DATUM>
\* span over the four tokens and no span for a part of it, and no character
\* of a report is in two spans of its annotation.
OneSpanPerCharacter ==
    outcome = "returned"
        => /\ \A d \in FourTokenDates : \A p \in PlacesOf(d, LastAnnotation.text) :
                 \E i \in 1..Len(LastAnnotation.labels) :
                    /\ LastAnnotation.labels[i] = <<p, p + Len(d), "<DATUM>">>
                    /\ SpansIn(LastAnnotation, p, p + Len(d)) = {i}
           /\ NoCharacterTwice(LastAnnotation)

(***************************************************************************)
(* Reports with a numeric date whose day, month and year are written with  *)
(* dots                                                                    *)
(***************************************************************************)

DottedDays == {"1", "01", "12", "23", "24", "31"}
DottedMonths == {"1", "01", "9", "10", "12"}
DottedYears == {"00", "20", "59", "60", "99"}

DottedDate(d, m, y) == d \o "." \o m \o "." \o y

DottedReports == {"op " \o DottedDate(d, m, y) \o " gezien" : d \in DottedDays, m \in DottedMonths, y \in DottedYears}

NextDotted == (\E r \in DottedReports : AnonymizeReport(r)) \/ Step

SpecDotted == InitOnce /\ [][NextDotted]_vars

\* the call on the report with the dotted date returned the text with the
\* one tag, and recorded the one span of the date
DottedTagged(d, m, y, tag) ==
    Done("op " \o DottedDate(d, m, y) \o " gezien")
        => /\ outcome = "returned"
           /\ result = "op " \o tag \o " gezien"
           /\ LastAnnotation.labels = <<<<3, 3 + Len(DottedDate(d, m, y)), tag>>>>

\* C22: with dates and times anonymized, a numeric date day.month.yy with
\* dots, day in 1 .. 31, month in 1 .. 12 and a year of two digits, is
\* tagged <DATUM> for every such day, month and year, and never <TIJD>.
DottedDatesAreDates ==
    \A d \in DottedDays, m \in DottedMonths, y \in DottedYears :
        DottedTagged(d, m, y, "<DATUM>")

\* the dotted date reads as a time of hours, minutes and seconds: at most
\* 23 hours, two digits of at most 59 for the minutes and for the seconds
ReadsAsTime(d, m, y) == IntOf(d) <= 23 /\ Len(m) = 2 /\ IntOf(y) <= 59

\* C22 (amended): the date is tagged <TIJD> when it reads as a time
\* hours.minutes.seconds, by the time detector, which runs before the date
\* detector in the loop of the three-grams, and <DATUM> in every other case.
DottedDatesAreDatesOrTimes ==
    \A d \in DottedDays, m \in DottedMonths, y \in DottedYears :
        DottedTagged(d, m, y, IF ReadsAsTime(d, m, y) THEN "<TIJD>" ELSE "<DATUM>")

DottedDateTaggedAsTime ==
    /\ Done("op 12.01.20 gezien")
    /\ result = "op <TIJD> gezien"
    /\ LastAnnotation.labels = <<<<3, 11, "<TIJD>">>>>

(***************************************************************************)
(* Reports with a time of the day                                          *)
(***************************************************************************)

HourTexts == {"0", "00", "1", "23", "24"}
MinuteTexts == {"00", "59", "60"}
TimeSeparators == {":", ".", "u"}

TimeReport(t) == "om " \o t \o " thuis gezien"

TimeReports ==
    {TimeReport(h \o s \o m) : h \in HourTexts, s \in TimeSeparators, m \in MinuteTexts}
    \cup {TimeReport(h \o " uur") : h \in HourTexts}

NextTimes == (\E r \in TimeReports : AnonymizeReport(r)) \/ Step

SpecTimes == InitOnce /\ [][NextTimes]_vars

\* the call on the report with the text t returned: with one <TIJD> for t
\* when t is a time, and with no <TIJD> when it is none
TimeTagged(t, valid) ==
    Done(TimeReport(t))
        => /\ outcome = "returned"
           /\ IF valid THEN result = TimeReport("<TIJD>") ELSE ~Contains(result, "<TIJD>")

\* C23: the time detector takes the hours 0 .. 23 and the minutes 0 .. 59
\* and no others, in each of the forms "HH:MM", "HH.MM", "HHuMM" and
\* "HH uur", the hour 0 of the form "HH uur" included.
TimesOfTheDayTagged ==
    /\ \A h \in HourTexts, s \in TimeSeparators, m \in MinuteTexts :
          TimeTagged(h \o s \o m, IntOf(h) <= 23 /\ IntOf(m) <= 59)
    /\ \A h \in HourTexts : TimeTagged(h \o " uur", IntOf(h) <= 23)

\* the digits of the counter of a label: what stands between the last "_"
\* and the ">"
CounterDigits(label) ==
    LET parts == SplitOn(label, {"_"})
    IN  SubSeq(parts[Len(parts)], 1, Len(parts[Len(parts)]) - 1)

\* C24: every label in the working text has a counter of exactly five
\* digits, whatever the number of substitutions the engine has made, as the
\* patterns of the misspelled names ask of the labels of cues and titles.
FiveDigitCounters ==
    \A label \in Range(FindallRe(report, 1, LabelPattern)) : Len(CounterDigits(label)) = 5

\* the cue words for locations
LocationCues == cues.positive_lookbehinds.locations

\* [start, end) of every place where the string c stands detached in the text
Detached(text, c) ==
    {<<i - 1, i - 1 + Len(c)>> : i \in {j \in 1..Len(text) :
                                          /\ StartsAt(text, j, c)
                                          /\ At(text, j - 1) \notin Attaching
                                          /\ At(text, j + Len(c)) \notin Attaching}}

\* the names of cities that stand behind a cue word in the text: the
\* tokens behind the first of an n-gram that is a cue word, when they are
\* the name of a city and one of them starts with a capital
CuedNames(text) ==
    {Join(" ", Tail(g)) :
        g \in {x \in UNION {Range(tokenize_reports(text)[m]) : m \in 2..5} :
                  /\ x[1] \in LocationCues
                  /\ lower(Join(" ", Tail(x))) \in dutch_cities
                  /\ capitals_exist(Tail(x))}}

InitialsTexts == {"J.", "J.M.", "A.B."}
SurnameTexts == {"Visser", "Jansen", "Hendrix"}

\* the initials before the surname, behind it, and behind it and a comma
InitialsForms(i, s) == {i \o " " \o s, s \o " " \o i, s \o ", " \o i}

\* what stands before and behind the name
Contexts == {<<"", "">>, <<"x ", " y z">>}

InitialsReports ==
    {c[1] \o name \o c[2] :
        c \in Contexts,
        name \in UNION {InitialsForms(i, s) : i \in InitialsTexts, s \in SurnameTexts}}

NextInitials == (\E r \in InitialsReports : AnonymizeReport(r)) \/ Step

SpecInitials == InitOnce /\ [][NextInitials]_vars

\* the kinds of the labels of a text, from left to right
KindsOf(text) ==
    LET found == FindallRe(text, 1, LabelPattern)
    IN  [k \in 1..Len(found) |-> KindOf(found[k])]

\* the kind of the label of a surname
SurnameKind(s) == IF lower(s) \in whitelist THEN "W_ACHTERNAAM" ELSE "ACHTERNAAM"

\* the call on the name between pre and post, where the working text has the
\* labels of the kinds given before the merge: merged into one person, or
\* left as it was
NameMerged(pre, name, post, kinds, merged) ==
    /\ (input = pre \o name \o post /\ pc = "merge") => KindsOf(report) = kinds
    /\ Done(pre \o name \o post)
          => /\ outcome = "returned"
             /\ IF merged
                THEN /\ result = pre \o "<PERSOON>" \o post
                     /\ LastAnnotation.labels = <<<<Len(pre), Len(pre) + Len(name), "<PERSOON>">>>>
                ELSE /\ result = pre \o name \o post
                     /\ LastAnnotation.labels = <<>>

\* C26: a label of initials with the label of a whitelisted surname directly
\* before or behind it, and no label of a title, a cue, a first name or
\* another surname next to them, is not merged into a person: both are text
\* again.  Around the label of a surname that is not whitelisted the same
\* labels are merged into one <PERSOON>.
InitialsMergeWithPlainSurname ==
    \A c \in Contexts, i \in InitialsTexts, s \in SurnameTexts :
        /\ NameMerged(c[1], i \o " " \o s, c[2], <<"INITIALEN", SurnameKind(s)>>,
                      SurnameKind(s) = "ACHTERNAAM")
        /\ NameMerged(c[1], s \o " " \o i, c[2], <<SurnameKind(s), "INITIALEN">>,
                      SurnameKind(s) = "ACHTERNAAM")
        /\ NameMerged(c[1], s \o ", " \o i, c[2], <<SurnameKind(s), "INITIALEN">>,
                      SurnameKind(s) = "ACHTERNAAM")

InitialsAndWhitelistedSurnameKept ==
    /\ Done("x J. Visser y z")
    /\ result = "x J. Visser y z"
    /\ LastAnnotation.labels = <<>>
    /\ counter = BaseCounter + 2

(***************************************************************************)
(* A caller that adds metadata to the annotations between its calls        *)
(***************************************************************************)

\* reports with a person, with no entity, with five tokens, and one for
\* which the call raises
MetaReports == {
    "dr Visser",
    "x",
    "collega dr. J. Hendrix, arts",
    "x\n\n\nAB\nverslagstatus\nADDENDUM: >> door J (" }

\* the metadata of the caller: metadict = {"filename": ..., "flagged": ...}
Metas == {[filename |-> "a", flagged |-> FALSE], [filename |-> "b", flagged |-> TRUE]}

\* the indexes the caller passes: the last entry, and the number of a call
MetaIndexes == {0 - 1} \cup (0..(MaxCalls - 1))

\* anonymizer.add_metadata(index, metadict), between two calls
AddMetadata(index, meta_dict) ==
    /\ pc = "idle"
    /\ annotations' = add_metadata(annotations, index, meta_dict)
    /\ UNCHANGED <<entities_to_anonymize, replace_dict, counter, original_report, report,
                   grams, n, idx, input, result, outcome, calls_left, pc>>

NextMeta ==
    \/ \E r \in MetaReports : AnonymizeReport(r)
    \/ Step
    \/ \E index \in MetaIndexes, meta_dict \in Metas : AddMetadata(index, meta_dict)

SpecMeta == Init /\ [][NextMeta]_vars

\* entry k of the list is what it was, but for what it holds under "meta"
SameButMeta(k) ==
    /\ annotations'[k].text = annotations[k].text
    /\ annotations'[k].labels = annotations[k].labels
    /\ "meta" \in DOMAIN annotations'[k]

\* the step is a call of add_metadata that changed the list
MetadataAdded == pc = "idle" /\ pc' = "idle" /\ annotations' # annotations

\* C27: every call of anonymize_report that completes appends exactly one
\* annotation, so that entry i of the list is that of the i-th completed
\* call, with the cleaned text of that call and a span for every label of
\* its working text; add_metadata(i, m) changes what entry i holds under
\* "meta" and nothing else: not its text or its labels, no other entry, not
\* the counter and not the map.  No other step changes the list.
OneAnnotationPerCall ==
    [][/\ (pc = "post" /\ outcome' = "returned")
            => /\ Len(annotations') = Len(annotations) + 1
               /\ SubSeq(annotations', 1, Len(annotations)) = annotations
               /\ annotations'[Len(annotations')].text = clean_report(input)
               /\ Len(annotations'[Len(annotations')].labels)
                     = Len(FindallRe(report, 1, LabelPattern))
       /\ MetadataAdded
            => /\ Len(annotations') = Len(annotations)
               /\ \E k \in 1..Len(annotations) :
                     /\ SameButMeta(k)
                     /\ \A j \in 1..Len(annotations) : j # k => annotations'[j] = annotations[j]
               /\ UNCHANGED <<counter, replace_dict, entities_to_anonymize, original_report,
                              input, result, outcome, calls_left>>
       /\ (~MetadataAdded /\ ~(pc = "post" /\ outcome' = "returned"))
            => annotations' = annotations]_vars

\* two calls completed, and the first entry got its metadata
FirstOfTwoHasMetadata ==
    /\ pc = "idle"
    /\ Len(annotations) = 2
    /\ "meta" \in DOMAIN annotations[1]
    /\ "meta" \notin DOMAIN annotations[2]
    /\ annotations[1].text = "dr Visser"
    /\ annotations[1].labels = <<<<0, 9, "<PERSOON>">>>>

RECURSIVE Original(_, _, _, _)
\* the text from position i on, with every label that the map holds
\* replaced by its original text, and the labels in that text likewise, to
\* the depth given
Original(text, i, d, depth) ==
    IF i > Len(text) THEN ""
    ELSE LET m == MatchAt(text, i, LabelPattern)
         IN  IF depth > 0 /\ m.ok /\ DictHas(d, SubSeq(text, i, m.end - 1))
             THEN Original(DictGet(d, SubSeq(text, i, m.end - 1)), 1, d, depth - 1)
                  \o Original(text, m.end, d, depth)
             ELSE At(text, i) \o Original(text, i + 1, d, depth)

\* the spans lie in the text, in ascending order, and no two overlap
SpansInOrder(annotation) ==
    /\ \A k \in 1..Len(annotation.labels) :
          /\ 0 <= annotation.labels[k][1]
          /\ annotation.labels[k][1] < annotation.labels[k][2]
          /\ annotation.labels[k][2] <= Len(annotation.text)
    /\ \A k \in 1..(Len(annotation.labels) - 1) :
          annotation.labels[k][2] <= annotation.labels[k + 1][1]

\* span k of the annotation is over the original text of label k of the
\* working text: for a person label, the text of all the labels it replaced
SpansOverOriginals(annotation, labels, d) ==
    /\ Len(annotation.labels) = Len(labels)
    /\ \A k \in 1..Len(labels) :
          k <= Len(annotation.labels) =>
             SubSeq(annotation.text, annotation.labels[k][1] + 1, annotation.labels[k][2])
                = Original(labels[k], 1, d, 3)

\* C28: the spans recorded for a report satisfy 0 <= start < end <= the
\* length of the text of the annotation, are in ascending order of start,
\* are pairwise disjoint, and each is over exactly the original text its
\* label replaced (a person span: from the first to the last label that the
\* person label took in).
SpansWellFormed ==
    [][(pc = "post" /\ outcome' = "returned")
          => /\ SpansInOrder(annotations'[Len(annotations')])
             /\ SpansOverOriginals(annotations'[Len(annotations')],
                                   FindallRe(report, 1, LabelPattern), replace_dict)]_vars

\* what stands behind "door " in the headers of the addenda of Cases
AddendumRests == {"Jansen, J.", "Sar, J.M. van der", "Jansen 3 arts", "A. Bakker op 12-01-2020"}

\* the report with the header of an addendum, signed by rest, between two lines
AddendumReport(rest) == "x\nADDENDUM: >> door " \o rest \o "\ny"

\* C29: in the header line of an addendum all that stands behind the word
\* "door", up to the end of the line, is replaced by one person label, and
\* nothing of it is left in the output, also when it holds digits.
AddendumSignatureReplaced ==
    \A rest \in AddendumRests :
        Done(AddendumReport(rest))
            => /\ outcome = "returned"
               /\ result = AddendumReport("<PERSOON>")
               /\ LastAnnotation.labels = <<<<20, 20 + Len(rest), "<PERSOON>">>>>


(***************************************************************************)
(* clean_report over short texts of letters, spaces, newlines, hyphens and *)
(* slashes                                                                 *)
(***************************************************************************)
CleanPieces == {"a", " ", "  ", "\n", "-", "/"}
CleanInputs ==
    {a \o b \o c \o d : a, b, c, d \in CleanPieces}
        \cup {" \n  a - b / c  d e f g", "\n \n a  -  b\n \n c /d e f g"}

NextClean == (\E r \in CleanInputs : AnonymizeReport(r)) \/ Step

SpecClean == InitOnce /\ [][NextClean]_vars

\* no two spaces in a row, no space next to a newline, a hyphen or a
\* slash, and no newline at the start
Cleaned(text) ==
    /\ ~Contains(text, "  ")
    /\ \A x \in {"\n", "-", "/"} : ~Contains(text, " " \o x) /\ ~Contains(text, x \o " ")
    /\ At(text, 1) # "\n"

\* C30: the text that clean_report returns has no two consecutive spaces, no
\* space next to a newline, a hyphen or a slash, and no newline at its start,
\* and clean_report applied to it returns it unchanged
CleanReportIsClean ==
    [][\A r \in CleanInputs :
          AnonymizeReport(r)
              => /\ Cleaned(original_report')
                 /\ clean_report(original_report') = original_report']_vars

\* a text with a leading blank line, runs of spaces and spaces around a
\* hyphen and a slash has been cleaned
SpacedTextCleaned ==
    /\ input = " \n  a - b / c  d e f g"
    /\ outcome = "running"
    /\ pc # "idle"
    /\ original_report = "a-b/c d e f g"

====
